---- MODULE Spec2Model ----
(***************************************************************************)
(* Model of the client-side data-access layer src/lib/mock/mockApi.ts in   *)
(* mock mode (isMock = TRUE) and of the page helpers that resolve          *)
(* organisation access.                                                    *)
(*                                                                         *)
(* localStorage is shared by all tabs; sessionStorage and the module-level *)
(* arrays DEMO_TRANSACTIONS / DEFAULT_BUDGET_BY_CLIENT exist once per tab. *)
(* A storage item is None (getItem returns null) or Some(v), v being the   *)
(* value JSON.parse returns for the stored text.                           *)
(*                                                                         *)
(* Amounts are kept in tenths of a currency unit (8.5 is 85), so that the  *)
(* demo amount 8.5 stays an integer.  The transaction fields type, date    *)
(* and madeBy are payload no code path reads and are left out.             *)
(***************************************************************************)
EXTENDS Integers, Sequences, FiniteSets, TLC

VARIABLES
    lsTransactions,            \* localStorage['transactions']
    lsBudget,                  \* localStorage['budgetByClient']
    lsOrgStatus,               \* localStorage['orgStatusByClient']
    lsCurrentOrgId,            \* localStorage['currentOrgId']
    lsActiveRole,              \* localStorage['activeRole']
    ssMockRole,                \* sessionStorage['mockRole'], per tab
    ssOrgSeeded,               \* sessionStorage['orgSeededThisSession'], per tab
    DEMO_TRANSACTIONS,         \* the module-level array, per tab
    DEFAULT_BUDGET_BY_CLIENT,  \* the module-level object, per tab
    clock,                     \* the last value Date.now() returned
    approveCount,              \* history: per position of the transaction list,
                               \* the number of setTransactionStatusFE(.., 'Approved') calls
    statusCalls,               \* history: the number of setTransactionStatusFE calls
                               \* and of direct applyTransactionToBudgetFE calls
    lsTasks,                   \* localStorage['tasks']
    lsRequests,                \* localStorage['requests']
    lsTaskCatalog,             \* localStorage['taskCatalog']
    lsAnnualBudget,            \* localStorage['annualBudgetByClient']
    lsActiveClientId,          \* localStorage['activeClientId']
    lsCurrentClientName,       \* localStorage['currentClientName']
    DEMO_REQUESTS,             \* the module-level array, per tab
    rejects,                   \* localStorage.setItem throws (quota exceeded)
    subscribers,               \* per tab: the listeners subscribeBudgetFE has added to
                               \* __budgetEventBus and not yet removed
    received,                  \* per listener: how many 'budget:changed' events its
                               \* handler got, and what the last one carried and found
    openPage,                  \* per tab: the page that is mounted
    visible,                   \* per tab: document.visibilityState === 'visible'
    pending,                   \* per tab: the keys of the storage events not yet handled
    shownTasks,                \* per tab: the tasks state of the schedule page
    shownClients,              \* per tab: the clients state of the client list page
    shownBudget,               \* per tab: the rows state of the budget report page
    held,                      \* per tab: what a writer has read from the store and
                               \* not yet written back
    fetched,                   \* the requests made to the backend, in order
    reqLog,                    \* a request record and its successive normalizations
    requests,                  \* per tab: the requests state of the request log page
                               \* (id and status of each row)
    lastSet,                   \* history: per (client, organisation), the status of the
                               \* last setOrgStatusForClientFE call since the last login
    lastOp,                    \* history: the call made by the last step
    ret                        \* the value that call returned (None when void)

vars == <<lsTransactions, lsBudget, lsOrgStatus, lsCurrentOrgId, lsActiveRole,
          ssMockRole, ssOrgSeeded, DEMO_TRANSACTIONS, DEFAULT_BUDGET_BY_CLIENT,
          clock, approveCount, statusCalls,
          lsTasks, lsRequests, lsTaskCatalog, lsAnnualBudget, lsActiveClientId,
          lsCurrentClientName, DEMO_REQUESTS, rejects, subscribers, received,
          openPage, visible, pending, shownTasks, shownClients, shownBudget, held, requests, fetched,
          reqLog,
          lastSet, lastOp, ret>>

budgetVars == <<lsTransactions, lsBudget, DEMO_TRANSACTIONS,
                DEFAULT_BUDGET_BY_CLIENT, clock, approveCount, statusCalls>>

accessVars == <<lsOrgStatus, lsCurrentOrgId, lsActiveRole, ssMockRole, ssOrgSeeded,
                lastSet>>

repoVars == <<lsTasks, lsRequests, lsTaskCatalog, lsAnnualBudget, lsActiveClientId,
              lsCurrentClientName, DEMO_REQUESTS>>

\* what no function of mockApi.ts changes in mock mode
pageVars  == <<rejects, subscribers, openPage, visible, shownTasks, shownClients,
               shownBudget, fetched, reqLog, requests>>
quietVars == <<pageVars, held>>

\* what the transaction and access operations never change
otherVars == <<repoVars, quietVars>>

\* no storage event is queued and no bus event is dispatched
silent == <<pending, received>>

\* ------------------------------------------------------------------ bounds
MaxAdded       == 1    \* transactions added on top of the three demo ones
MaxStatusCalls == 2    \* setTransactionStatusFE calls in a run
FirstNow       == 100  \* Date.now() when the page is opened
MaxRequests    == 2    \* requests added on top of the three demo ones

Tabs   == {"A", "B"}   \* two open tabs of the same browser profile
OneTab == {"A"}        \* the tab of the single-tab runs

\* ------------------------------------------------------------------ values
None    == <<>>
Some(v) == <<v>>

\* a stored text JSON.parse does not turn into a collection: kind is
\* "malformed" (JSON.parse throws) or "null" (the text 'null')
Bad(kind) == <<"bad", kind>>
Malformed == Bad("malformed")
JsonNull  == Bad("null")

\* {}: a map of maps without entries
EmptyMap == [c \in {} |-> [o \in {} |-> ""]]

\* m[clientId]?.[orgId], None standing for undefined
Lookup(m, clientId, orgId) ==
    IF clientId \in DOMAIN m /\ orgId \in DOMAIN m[clientId]
    THEN Some(m[clientId][orgId]) ELSE None

(***************************************************************************)
(* The two notification channels: the same-tab bus and the storage events  *)
(***************************************************************************)
SubIds == {"h1", "h2"}     \* the listeners subscribeBudgetFE creates

\* a listener that does not exist yet and was given no event
NoEvent == [n |-> 0, kind |-> "", stored |-> None, fn |-> "none"]

\* __emitBudgetChanged(detail) in tab t: dispatchEvent runs the listeners of
\* the tab's bus; stored is the item their handlers find in the store
emitBudgetChanged(t, kind, stored) ==
    [h \in SubIds |->
        IF h \in subscribers[t]
        THEN [received[h] EXCEPT !.n = @ + 1, !.kind = kind, !.stored = stored]
        ELSE received[h]]

\* the key the budget report page reloads on
BudgetPageKeys == {"budgetByClient"}

\* the keys the storage listener of the page mounted in tab u reacts to
Listens(u) ==
    CASE openPage[u] = "schedule" -> {"tasks", "taskFiles"}
      [] openPage[u] = "clients"  -> {"orgStatusByClient", "__org_touch__", "currentOrgId"}
      [] openPage[u] = "budget"   -> BudgetPageKeys
      [] OTHER                    -> {}

\* the keys whose stored value the step changes
ChangedKeys ==
    (IF lsTasks' # lsTasks THEN {"tasks"} ELSE {})
    \cup (IF lsOrgStatus' # lsOrgStatus THEN {"orgStatusByClient"} ELSE {})
    \cup (IF lsCurrentOrgId' # lsCurrentOrgId THEN {"currentOrgId"} ELSE {})
    \cup (IF lsBudget' # lsBudget THEN {"budgetByClient"} ELSE {})

Posted_nowhere(t, touched) == pending

\* the storage events of a step of tab t: one per changed key (and per key in
\* touched, set and removed within the step), queued for the listeners of
\* the other tabs
Posted(t, touched) ==
    [u \in Tabs |->
        IF u = t THEN pending[u]
        ELSE pending[u] \cup ((ChangedKeys \cup touched) \cap Listens(u))]

\* no page is mounted, nothing is subscribed, nothing was fetched
NothingMounted ==
    /\ subscribers = [t \in Tabs |-> {}]
    /\ received = [h \in SubIds |-> NoEvent]
    /\ openPage = [t \in Tabs |-> "none"]
    /\ visible = [t \in Tabs |-> TRUE]
    /\ pending = [t \in Tabs |-> {}]
    /\ shownTasks = [t \in Tabs |-> <<>>]
    /\ shownClients = [t \in Tabs |-> <<>>]
    /\ shownBudget = [t \in Tabs |-> <<>>]
    /\ held = [t \in Tabs |-> <<>>]
    /\ requests = [t \in Tabs |-> <<>>]
    /\ fetched = <<>>
    /\ reqLog = <<>>

\* what a call that threw (or whose promise was rejected) leaves in ret
Thrown == <<"thrown", "TypeError", "">>

\* localStorage.setItem(key, new) where the item was old: the item afterwards,
\* for the callers that catch the exception of a rejected write
setItem(old, new) == IF rejects THEN old ELSE new

Tenths(n) == n * 10

FULL_DASH_ID    == "mock1"
PARTIAL_DASH_ID == "mock2"
CATHY_ID        == "mock-cathy"
OtherClient     == "client9"        \* a client id with no demo budget

TxStatus == {"Pending", "Approved", "Rejected"}

(***************************************************************************)
(* Budget                                                                  *)
(***************************************************************************)
Row(item, category, allocated, spent) ==
    [item |-> item, category |-> category, allocated |-> allocated, spent |-> spent]

DEFAULT_BUDGET_BY_CLIENT_0 ==
    (FULL_DASH_ID :> << Row("Dental Appointments", "Appointments", Tenths(600), Tenths(636)),
                        Row("Toothbrush Heads",    "Hygiene",      Tenths(30),  Tenths(28)),
                        Row("Socks",               "Clothing",     Tenths(176), Tenths(36)) >>)
 @@ (PARTIAL_DASH_ID :> << Row("GP Checkup", "Appointments", Tenths(400), Tenths(300)),
                           Row("Shampoo",    "Hygiene",      Tenths(50),  Tenths(45)),
                           Row("Jacket",     "Clothing",     Tenths(200), Tenths(120)) >>)
 @@ (CATHY_ID :> << Row("Eye Test",  "Appointments", Tenths(500), Tenths(100)),
                    Row("Body Wash", "Hygiene",      Tenths(40),  Tenths(15)),
                    Row("Shoes",     "Clothing",     Tenths(300), Tenths(280)) >>)

\* Number(x || 0): a falsy amount (0, undefined, NaN) counts as 0
Num(x) == IF x = 0 THEN 0 ELSE x

\* String.prototype.toLowerCase on the strings of the model
Lower(s) == IF s = "Clothing" THEN "clothing" ELSE s

RowMatches_ignoreCase(r, category, item) ==
    Lower(r.category) = Lower(category) /\ Lower(r.item) = Lower(item)

RowMatches_categoryOnly(r, category, item) == r.category = category

\* the predicate of rows.findIndex: r.category === category && r.item === item
RowMatches(r, category, item) == r.category = category /\ r.item = item

\* rows.findIndex(pred): the first matching position, 0 when there is none (-1 in JS)

FindRow(rows, category, item) ==
    IF \E i \in 1..Len(rows) : RowMatches(rows[i], category, item)
    THEN CHOOSE i \in 1..Len(rows) :
            /\ RowMatches(rows[i], category, item)
            /\ \A j \in 1..(i-1) : ~RowMatches(rows[j], category, item)
    ELSE 0

ApplyToRows_newRow(rows, category, item, amount) ==
    LET idx == FindRow(rows, category, item) IN
    IF idx > 0
    THEN [rows EXCEPT ![idx] = Row(item, category, 0, @.spent + Num(amount))]
    ELSE Append(rows, Row(item, category, 0, Num(amount)))

ApplyToRows_overwrite(rows, category, item, amount) ==
    LET idx == FindRow(rows, category, item) IN
    IF idx > 0
    THEN [rows EXCEPT ![idx] = [@ EXCEPT !.spent = Num(amount)]]
    ELSE Append(rows, Row(item, category, 0, Num(amount)))

\* the body of applyTransactionToBudgetFE on the rows of one client
ApplyToRows(rows, category, item, amount) ==
    LET idx == FindRow(rows, category, item) IN
    IF idx > 0
    THEN [rows EXCEPT ![idx] = [@ EXCEPT !.spent = @ + Num(amount)]]
    ELSE Append(rows, Row(item, category, 0, Num(amount)))

\* readBudgetMap in tab t: the returned map, and the stored item afterwards.
\* A missing or malformed item is seeded; the text 'null' is returned as null.
BudgetSeeds == lsBudget \in {None, Malformed}
BudgetNull  == lsBudget = JsonNull
readBudgetMap(t) == IF BudgetSeeds THEN DEFAULT_BUDGET_BY_CLIENT[t] ELSE lsBudget[1]
BudgetAfterRead(t) ==
    IF BudgetSeeds THEN setItem(lsBudget, Some(DEFAULT_BUDGET_BY_CLIENT[t])) ELSE lsBudget

RowsOf(m, clientId) == IF clientId \in DOMAIN m THEN m[clientId] ELSE <<>>

\* m after m[clientId] = rows, rows being the updated rows of the client
AppliedTo(m, clientId, category, item, amount) ==
    LET rows == ApplyToRows(RowsOf(m, clientId), category, item, amount)
    IN  [c \in DOMAIN m \cup {clientId} |-> IF c = clientId THEN rows ELSE m[c]]

\* the map applyTransactionToBudgetFE writes
AppliedMap(t, clientId, category, item, amount) ==
    AppliedTo(readBudgetMap(t), clientId, category, item, amount)

\* readBudgetMap returns a shallow copy when it seeds: the row arrays are the
\* ones of DEFAULT_BUDGET_BY_CLIENT, so the update in place reaches them
DefaultAfterApply(t, clientId, category, item, amount) ==
    IF BudgetSeeds /\ clientId \in DOMAIN DEFAULT_BUDGET_BY_CLIENT[t]
    THEN [DEFAULT_BUDGET_BY_CLIENT EXCEPT ![t][clientId] =
             ApplyToRows(@, category, item, amount)]
    ELSE DEFAULT_BUDGET_BY_CLIENT

(***************************************************************************)
(* Transactions                                                            *)
(***************************************************************************)
TxId(n) == <<"t", n>>           \* `t${n}`

Tx(id, clientId, category, item, amount, status, dataUrl, filename, mime) ==
    [id |-> id, clientId |-> clientId, category |-> category, item |-> item,
     amount |-> amount, status |-> status,
     receiptDataUrl |-> dataUrl, receiptFilename |-> filename, receiptMimeType |-> mime]

DEMO_TRANSACTIONS_0 ==
    << Tx(TxId(1), FULL_DASH_ID, "Appointments", "Dental Appointments", Tenths(36),
          "Approved", "", "Mock receipt 1.pdf", ""),
       Tx(TxId(2), FULL_DASH_ID, "Hygiene", "Toothbrush Heads", Tenths(-2),
          "Rejected", "", "Mock receipt 2.pdf", ""),
       Tx(TxId(3), FULL_DASH_ID, "Hygiene", "Mouthwash", 85,
          "Pending", "", "Mock receipt 3.pdf", "") >>

\* backfillDemoReceipts: t1..t3 without any receipt get the demo file name
DemoReceipt(id) ==
    IF id = TxId(1) THEN "Mock receipt 1.pdf"
    ELSE IF id = TxId(2) THEN "Mock receipt 2.pdf"
    ELSE IF id = TxId(3) THEN "Mock receipt 3.pdf"
    ELSE ""

backfillDemoReceipts(all) ==
    [i \in 1..Len(all) |->
        IF all[i].receiptDataUrl = "" /\ all[i].receiptFilename = "" /\ DemoReceipt(all[i].id) # ""
        THEN [all[i] EXCEPT !.receiptFilename = DemoReceipt(all[i].id),
                            !.receiptMimeType = "application/pdf"]
        ELSE all[i]]

\* readTransactions in tab t: the returned array (DEMO_TRANSACTIONS itself when
\* the item is missing), and the stored item afterwards
TxSeeds == lsTransactions \in {None, Malformed, JsonNull}
readTransactions(t) ==
    IF TxSeeds THEN DEMO_TRANSACTIONS[t] ELSE backfillDemoReceipts(lsTransactions[1])
TxAfterRead(t) == setItem(lsTransactions, Some(readTransactions(t)))

\* all.findIndex((t) => t.id === txId)
FindTx(all, txId) ==
    IF \E i \in 1..Len(all) : all[i].id = txId
    THEN CHOOSE i \in 1..Len(all) :
            all[i].id = txId /\ \A j \in 1..(i-1) : all[j].id # txId
    ELSE 0

\* the transactions a form can submit: (clientId, category, item, amount, status);
\* status "" stands for an omitted status
NewTxInputs ==
    { <<FULL_DASH_ID, "Clothing", "Socks",  Tenths(20), "">>,
      <<FULL_DASH_ID, "New",      "Widget", Tenths(15), "">>,
      <<FULL_DASH_ID, "clothing", "Socks",  Tenths(-2), "Approved">>,
      <<OtherClient,  "New",      "Widget", 0,          "Pending">> }

Op(name, tab, arg) == [op |-> name, tab |-> tab, arg |-> arg]

\* addTransactionFE(tx) in tab t; now is what Date.now() returns
addTransactionFE(t, in, now) ==
    LET all    == readTransactions(t)
        withId == Tx(TxId(now), in[1], in[2], in[3], in[4],
                     IF in[5] = "" THEN "Pending" ELSE in[5],
                     "data:receipt", "", "image/png")
        all2   == Append(all, withId)
    IN  /\ Len(all) < Len(DEMO_TRANSACTIONS_0) + MaxAdded
        /\ now >= clock /\ now <= FirstNow + MaxAdded
        \* a reading equal to the previous one is told apart only by an id made from it
        /\ now = clock => FindTx(all, TxId(clock)) > 0
        /\ clock' = now
        /\ lsTransactions' = setItem(lsTransactions, Some(all2))
        /\ DEMO_TRANSACTIONS' = IF TxSeeds THEN [DEMO_TRANSACTIONS EXCEPT ![t] = all2]
                                ELSE DEMO_TRANSACTIONS
        /\ approveCount' = Append(approveCount, 0)
        /\ lastOp' = Op("addTransactionFE", t, <<>>)
        /\ ret' = Some(withId.id)
        /\ UNCHANGED <<lsBudget, DEFAULT_BUDGET_BY_CLIENT, statusCalls, accessVars,
                       otherVars>>
        /\ received' = emitBudgetChanged(t, "txn-added", lsTransactions')
        /\ UNCHANGED pending

WithStatus_oneWay(prev, status) ==
    IF prev.status = "Approved" THEN prev ELSE [prev EXCEPT !.status = status]

\* { ...prev, status }
WithStatus(prev, status) == [prev EXCEPT !.status = status]

AppliesToBudget_onceOnly(prev, status) == status = "Approved" /\ prev.status # "Approved"

\* if (status === 'Approved'): the guard of the budget update
AppliesToBudget(prev, status) == status = "Approved"

\* setTransactionStatusFE(txId, status) in tab t
setTransactionStatusFE(t, txId, status) ==
    LET all  == readTransactions(t)
        idx  == FindTx(all, txId)
    IN  /\ statusCalls < MaxStatusCalls
        /\ statusCalls' = statusCalls + 1
        /\ lastOp' = Op("setTransactionStatusFE", t, <<txId, status>>)
        \* applyTransactionToBudgetFE reads m[clientId] of a null map: TypeError
        /\ ret' = IF idx > 0 /\ AppliesToBudget(all[idx], status) /\ BudgetNull
                  THEN Thrown ELSE None
        /\ IF idx = 0
           THEN /\ lsTransactions' = TxAfterRead(t)
                /\ UNCHANGED <<lsBudget, DEMO_TRANSACTIONS, DEFAULT_BUDGET_BY_CLIENT,
                               approveCount>>
           ELSE LET prev == all[idx]
                    all2 == [all EXCEPT ![idx] = WithStatus(prev, status)]
                IN  /\ lsTransactions' = setItem(lsTransactions, Some(all2))
                    /\ DEMO_TRANSACTIONS' =
                          IF TxSeeds THEN [DEMO_TRANSACTIONS EXCEPT ![t] = all2]
                          ELSE DEMO_TRANSACTIONS
                    /\ approveCount' = IF status = "Approved"
                                       THEN [approveCount EXCEPT ![idx] = @ + 1]
                                       ELSE approveCount
                    /\ IF AppliesToBudget(prev, status) /\ ~BudgetNull
                       THEN /\ lsBudget' = setItem(lsBudget,
                                               Some(AppliedMap(t, prev.clientId, prev.category,
                                                               prev.item, Num(prev.amount))))
                            /\ DEFAULT_BUDGET_BY_CLIENT' =
                                  DefaultAfterApply(t, prev.clientId, prev.category,
                                                    prev.item, Num(prev.amount))
                       ELSE UNCHANGED <<lsBudget, DEFAULT_BUDGET_BY_CLIENT>>
        /\ UNCHANGED <<clock, accessVars, otherVars>>
        /\ received' = IF idx > 0 /\ AppliesToBudget(all[idx], status) /\ ~BudgetNull
                       THEN emitBudgetChanged(t, "txn-approved", lsTransactions')
                       ELSE received
        /\ pending' = Posted(t, {})

(***************************************************************************)
(* Request log                                                             *)
(***************************************************************************)
\* createdAt is kept as the day of September 2025 of the ISO time stamp; the
\* fields createdBy, title, category and priority are payload no code reads
Request(id, clientId, createdAt, detail, reason, status) ==
    [id |-> id, clientId |-> clientId, createdAt |-> createdAt,
     detail |-> detail, reason |-> reason, status |-> status]

RqId(n) == <<"rq", n>>          \* `rq${n}`

DEMO_REQUESTS_0 ==
    << Request(RqId(1), FULL_DASH_ID, 25, "Dentist suggested every 2 months.",
               "Better oral health management.", "Pending"),
       Request(RqId(2), FULL_DASH_ID, 27, "Prefer softer bristles.",
               "Client comfort and preference.", "Approved"),
       Request(RqId(3), PARTIAL_DASH_ID, 29, "30 minutes at the park.",
               "Promote physical activity.", "Rejected") >>

\* readRequestsAll in tab t: a missing or malformed item is seeded with
\* DEMO_REQUESTS (the array itself is returned); 'null' is returned as null
RequestsSeeds == lsRequests \in {None, Malformed}
RequestsNull  == lsRequests = JsonNull
readRequestsAll(t) == IF RequestsSeeds THEN DEMO_REQUESTS[t] ELSE lsRequests[1]
RequestsAfterRead(t) ==
    IF RequestsSeeds THEN setItem(lsRequests, Some(DEMO_REQUESTS[t])) ELSE lsRequests

\* all.filter(x => x.clientId === clientId)
RECURSIVE OfClient(_, _)
OfClient(all, clientId) ==
    IF all = <<>> THEN <<>>
    ELSE IF Head(all).clientId = clientId
         THEN <<Head(all)>> \o OfClient(Tail(all), clientId)
         ELSE OfClient(Tail(all), clientId)

\* insertion of r into a list kept by descending createdAt, after its equals
RECURSIVE InsertDesc(_, _)
InsertDesc(sorted, r) ==
    IF sorted = <<>> THEN <<r>>
    ELSE IF Head(sorted).createdAt >= r.createdAt
         THEN <<Head(sorted)>> \o InsertDesc(Tail(sorted), r)
         ELSE <<r>> \o sorted

\* list.sort((a, b) => b.createdAt.localeCompare(a.createdAt)): stable, newest first
RECURSIVE SortDesc(_)
SortDesc(list) ==
    IF list = <<>> THEN <<>>
    ELSE InsertDesc(SortDesc(SubSeq(list, 1, Len(list) - 1)), list[Len(list)])

\* getRequestsByClientFE(clientId) in tab t, mock branch
getRequestsByClientFE(t, clientId) ==
    /\ lastOp' = Op("getRequestsByClientFE", t, <<clientId>>)
    /\ lsRequests' = RequestsAfterRead(t)
    \* null.filter: TypeError, the promise is rejected
    /\ ret' = IF RequestsNull THEN Thrown
              ELSE Some(SortDesc(OfClient(readRequestsAll(t), clientId)))
    /\ UNCHANGED <<lsTasks, lsTaskCatalog, lsAnnualBudget, lsActiveClientId,
                   lsCurrentClientName, DEMO_REQUESTS, quietVars, budgetVars, accessVars>>
    /\ UNCHANGED silent

(***************************************************************************)
(* Tasks.  A task is kept as JSON keeps it: every field is None (absent or *)
(* null) or Some(value); a title that is not a string is Bad("number").    *)
(***************************************************************************)
Task(id, clientId, title, category, frequency, lastDone, nextDue, status, comments, files) ==
    [id |-> id, clientId |-> clientId, title |-> title, category |-> category,
     frequency |-> frequency, lastDone |-> lastDone, nextDue |-> nextDue,
     status |-> status, comments |-> comments, files |-> files]

DEMO_TASKS ==
    << Task(Some("1"), Some(FULL_DASH_ID), Some("Dental Appointment"), Some("Appointments"),
            Some("Monthly"), Some("2025-09-15"), Some("2025-10-01"), Some("Pending"),
            Some(<<"Carer note: Arrived on time, patient was calm.">>), Some(<<>>)),
       Task(Some("2"), Some(FULL_DASH_ID), Some("Replace Toothbrush Head"), Some("Hygiene"),
            Some("Every 3 months"), Some("2025-07-13"), Some("2025-10-13"), Some("Pending"),
            Some(<<"Carer note: Current head slightly worn.">>), Some(<<>>)),
       Task(Some("3"), Some(PARTIAL_DASH_ID), Some("Submit Report"), Some("Administration"),
            Some("Weekly"), Some("2025-09-18"), Some("2025-09-25"), Some("Overdue"),
            Some(<<>>), Some(<<>>)) >>

\* `${idx + 1}` and `Task ${idx + 1}` for the positions of the model (idx + 1 is n)
IndexText(n) == <<"1", "2", "3", "4", "5", "6">>[n]
TaskTitle(n) == <<"Task 1", "Task 2", "Task 3", "Task 4", "Task 5", "Task 6">>[n]

\* a ?? b
Coalesce(a, b) == IF a # None THEN a ELSE b

hydrate_noNextDue(p, n) ==
    Task(Coalesce(p.id, Some(IndexText(n))),
         Coalesce(p.clientId, Some(FULL_DASH_ID)),
         IF Len(p.title) = 1 THEN p.title ELSE Some(TaskTitle(n)),
         Coalesce(p.category, Some("")),
         Coalesce(p.frequency, Some("")),
         Coalesce(p.lastDone, Some("")),
         Coalesce(p.nextDue, Some("")),
         Coalesce(p.status, Some("Pending")),
         Coalesce(p.comments, Some(<<>>)),
         Coalesce(p.files, Some(<<>>)))

\* the callback of parsed.map in getTasksFE, for the element p at position n
hydrate(p, n) ==
    Task(Coalesce(p.id, Some(IndexText(n))),
         Coalesce(p.clientId, Some(FULL_DASH_ID)),
         IF Len(p.title) = 1 THEN p.title ELSE Some(TaskTitle(n)),
         Coalesce(p.category, Some("")),
         Coalesce(p.frequency, Some("")),
         Coalesce(Coalesce(p.lastDone, p.nextDue), Some("")),
         Coalesce(p.nextDue, Some("")),
         Coalesce(p.status, Some("Pending")),
         Coalesce(p.comments, Some(<<>>)),
         Coalesce(p.files, Some(<<>>)))

hydrated(parsed) == [n \in 1..Len(parsed) |-> hydrate(parsed[n], n)]

\* Array.isArray(parsed) && parsed.length > 0, for the item text raw
TasksUsable(raw) == Len(raw) = 1 /\ Len(raw[1]) > 0

\* getTasksFE() in tab t, mock branch.  The write of the hydrated list is inside
\* the first try: when it is rejected the function goes on to the seeding path.
getTasksFE(t) ==
    /\ lastOp' = Op("getTasksFE", t, <<>>)
    /\ IF TasksUsable(lsTasks) /\ ~rejects
       THEN /\ lsTasks' = Some(hydrated(lsTasks[1]))
            /\ ret' = Some(hydrated(lsTasks[1]))
       ELSE /\ lsTasks' = setItem(lsTasks, Some(DEMO_TASKS))
            /\ ret' = Some(DEMO_TASKS)
    /\ UNCHANGED <<lsRequests, lsTaskCatalog, lsAnnualBudget, lsActiveClientId,
                   lsCurrentClientName, DEMO_REQUESTS, quietVars, budgetVars, accessVars>>
    /\ UNCHANGED received
    /\ pending' = Posted(t, {})

\* saveTasksFE(tasks) in tab t, mock branch
saveTasksFE(t, tasks) ==
    /\ lastOp' = Op("saveTasksFE", t, tasks)
    /\ lsTasks' = setItem(lsTasks, Some(tasks))
    /\ ret' = None
    /\ UNCHANGED <<lsRequests, lsTaskCatalog, lsAnnualBudget, lsActiveClientId,
                   lsCurrentClientName, DEMO_REQUESTS, quietVars, budgetVars, accessVars>>
    /\ UNCHANGED received
    /\ pending' = Posted(t, {})

(***************************************************************************)
(* Task catalog, annual budget and the read side of transactions, budget   *)
(***************************************************************************)
CatalogItem(id, title, category) == [id |-> id, title |-> title, category |-> category]

DEMO_TASK_CATALOG ==
    << CatalogItem("tc-apt-dental",  "Dental Appointment",      "Appointments"),
       CatalogItem("tc-apt-gp",      "GP Checkup",              "Appointments"),
       CatalogItem("tc-hyg-tooth",   "Replace Toothbrush Head", "Hygiene"),
       CatalogItem("tc-hyg-shampoo", "Buy Shampoo",             "Hygiene"),
       CatalogItem("tc-cloth-socks", "Buy Socks",               "Clothing") >>

CatalogSeeds == lsTaskCatalog \in {None, Malformed}

\* getTaskCatalogFE() in tab t, mock branch: readTaskCatalogAll(); the text
\* 'null' is returned as null
getTaskCatalogFE(t) ==
    /\ lastOp' = Op("getTaskCatalogFE", t, <<>>)
    /\ lsTaskCatalog' = IF CatalogSeeds THEN setItem(lsTaskCatalog, Some(DEMO_TASK_CATALOG))
                        ELSE lsTaskCatalog
    /\ ret' = IF CatalogSeeds THEN Some(DEMO_TASK_CATALOG)
              ELSE IF lsTaskCatalog = JsonNull THEN JsonNull
              ELSE lsTaskCatalog
    /\ UNCHANGED <<lsTasks, lsRequests, lsAnnualBudget, lsActiveClientId,
                   lsCurrentClientName, DEMO_REQUESTS, quietVars, budgetVars, accessVars>>
    /\ UNCHANGED silent

\* __readAnnualBudgetMap(): {} for a missing or malformed item
AnnualNull == lsAnnualBudget = JsonNull
readAnnualBudgetMap == IF lsAnnualBudget \in {None, Malformed} THEN EmptyMap
                       ELSE lsAnnualBudget[1]

\* getAnnualBudgetFE(clientId, year) in tab t: m[clientId]?.[year] ?? 0
getAnnualBudgetFE(t, clientId, year) ==
    /\ lastOp' = Op("getAnnualBudgetFE", t, <<clientId, year>>)
    /\ ret' = IF AnnualNull THEN Thrown
              ELSE Some(IF Lookup(readAnnualBudgetMap, clientId, year) = None THEN 0
                        ELSE Lookup(readAnnualBudgetMap, clientId, year)[1])
    /\ UNCHANGED <<repoVars, quietVars, budgetVars, accessVars>>
    /\ UNCHANGED silent

\* getTransactionsFE(clientId) in tab t, mock branch
getTransactionsFE(t, clientId) ==
    /\ lastOp' = Op("getTransactionsFE", t, <<clientId>>)
    /\ lsTransactions' = TxAfterRead(t)
    /\ ret' = Some(OfClient(readTransactions(t), clientId))
    /\ UNCHANGED <<lsBudget, DEMO_TRANSACTIONS, DEFAULT_BUDGET_BY_CLIENT, clock,
                   approveCount, statusCalls, accessVars, otherVars>>
    /\ UNCHANGED silent

\* getBudgetRowsFE(clientId) in tab t, mock branch: m[clientId] ?? []
getBudgetRowsFE(t, clientId) ==
    /\ lastOp' = Op("getBudgetRowsFE", t, <<clientId>>)
    /\ lsBudget' = BudgetAfterRead(t)
    /\ ret' = IF BudgetNull THEN Thrown ELSE Some(RowsOf(readBudgetMap(t), clientId))
    /\ UNCHANGED <<lsTransactions, DEMO_TRANSACTIONS, DEFAULT_BUDGET_BY_CLIENT, clock,
                   approveCount, statusCalls, accessVars, otherVars>>
    /\ UNCHANGED received
    /\ pending' = Posted(t, {})

(***************************************************************************)
(* Initial state: a freshly opened browser profile, nothing stored.        *)
(***************************************************************************)
Init ==
    /\ lsTransactions = None
    /\ lsBudget = None
    /\ lsOrgStatus = None
    /\ lsCurrentOrgId = None
    /\ lsActiveRole = None
    /\ ssMockRole = [t \in Tabs |-> None]
    /\ ssOrgSeeded = [t \in Tabs |-> None]
    /\ DEMO_TRANSACTIONS = [t \in Tabs |-> DEMO_TRANSACTIONS_0]
    /\ DEFAULT_BUDGET_BY_CLIENT = [t \in Tabs |-> DEFAULT_BUDGET_BY_CLIENT_0]
    /\ clock = FirstNow
    /\ approveCount = [i \in 1..Len(DEMO_TRANSACTIONS_0) |-> 0]
    /\ statusCalls = 0
    /\ lsTasks = None
    /\ lsRequests = None
    /\ lsTaskCatalog = None
    /\ lsAnnualBudget = None
    /\ lsActiveClientId = None
    /\ lsCurrentClientName = None
    /\ DEMO_REQUESTS = [t \in Tabs |-> DEMO_REQUESTS_0]
    /\ rejects = FALSE
    /\ NothingMounted
    /\ lastSet = <<>>
    /\ lastOp = Op("init", "", <<>>)
    /\ ret = None

(***************************************************************************)
(* Viewer role, organisations and per-(client, organisation) overrides     *)
(***************************************************************************)
ViewerRole  == {"family", "carer", "management"}
OrgStatusFE == {"approved", "pending", "revoked"}
MOCK_ORGS   == {"org1", "org2", "org3"}

\* getClientsFE() in mock mode; orgAccess is optional in the Client type
Client(id, name, orgAccess) == [_id |-> id, name |-> name, orgAccess |-> orgAccess]

getClientsFE ==
    << Client(FULL_DASH_ID,    "Mock Alice", Some("approved")),
       Client(PARTIAL_DASH_ID, "Mock Bob",   Some("pending")),
       Client(CATHY_ID,        "Mock Cathy", Some("revoked")) >>

\* getCurrentOrgIdFE(): localStorage.getItem('currentOrgId') || 'org1'
getCurrentOrgIdFE == IF lsCurrentOrgId = None \/ lsCurrentOrgId = Some("")
                     THEN "org1" ELSE lsCurrentOrgId[1]

\* readStatusMap(): the parsed item, {} when it is missing or malformed; the
\* text 'null' parses to null, which readStatusMap returns as it is
StatusNull == lsOrgStatus = JsonNull
readStatusMap == IF lsOrgStatus \in {None, Malformed} THEN EmptyMap ELSE lsOrgStatus[1]

\* m[clientId]?.[orgId]; m[clientId] of a null map is a TypeError
getOrgStatusForClientFE(clientId, orgId) ==
    IF StatusNull THEN Thrown ELSE Lookup(readStatusMap, clientId, orgId)

Put_keepFirst(m, clientId, orgId, status) ==
    IF Lookup(m, clientId, orgId) # None THEN m
    ELSE [c \in DOMAIN m \cup {clientId} |->
            IF c = clientId
            THEN [o \in (IF c \in DOMAIN m THEN DOMAIN m[c] ELSE {}) \cup {orgId} |->
                     IF o = orgId THEN status ELSE m[c][o]]
            ELSE m[c]]

\* m[clientId] = m[clientId] || {}; m[clientId][orgId] = status
Put(m, clientId, orgId, status) ==
    LET inner == IF clientId \in DOMAIN m THEN m[clientId] ELSE [o \in {} |-> ""]
    IN  [c \in DOMAIN m \cup {clientId} |->
            IF c = clientId
            THEN [o \in DOMAIN inner \cup {orgId} |-> IF o = orgId THEN status ELSE inner[o]]
            ELSE m[c]]

EnsureKeeps_never(m, clientId, orgId) == FALSE

\* !m[clientId][orgId] is false: the pair already has a (non-empty) status
EnsureKeeps(m, clientId, orgId) ==
    Lookup(m, clientId, orgId) # None /\ Lookup(m, clientId, orgId) # Some("")

\* ensure(clientId, status) inside seedOrgStatusDefaultsFE
ensure(m, clientId, orgId, status) ==
    IF EnsureKeeps(m, clientId, orgId)
    THEN m
    ELSE Put(m, clientId, orgId, status)

\* the map seedOrgStatusDefaultsFE builds from m for organisation orgId
SeededMap(m, orgId) ==
    ensure(ensure(ensure(m, FULL_DASH_ID, orgId, "approved"),
                  PARTIAL_DASH_ID, orgId, "pending"),
           CATHY_ID, orgId, "revoked")

SeedSkips_never(flag) == FALSE

\* seedOrgStatusDefaultsFE() returns at once when the session flag is '1'
SeedSkips(flag) == flag = Some("1")

\* the effect of seedOrgStatusDefaultsFE() in a tab whose flag is flag, on the
\* stored override item status, with current organisation orgId:
\* the stored item and the flag afterwards
SeedEffect(status, flag, orgId) ==
    IF SeedSkips(flag)
    THEN [status |-> status, flag |-> flag]
    ELSE IF status = JsonNull
    \* ensure reads m[clientId] of null: the TypeError is caught, nothing is written
    THEN [status |-> status, flag |-> flag]
    ELSE [status |-> setItem(status,
                             Some(SeededMap(IF status \in {None, Malformed} THEN EmptyMap
                                            ELSE status[1], orgId))),
          flag   |-> Some("1")]

SeedNow(t) == SeedEffect(lsOrgStatus, ssOrgSeeded[t], getCurrentOrgIdFE)

seedOrgStatusDefaultsFE(t) ==
    /\ lsOrgStatus' = SeedNow(t).status
    /\ ssOrgSeeded' = [ssOrgSeeded EXCEPT ![t] = SeedNow(t).flag]
    /\ lastOp' = Op("seedOrgStatusDefaultsFE", t,
                    <<IF SeedSkips(ssOrgSeeded[t]) THEN "skipped" ELSE "ran">>)
    /\ ret' = None
    /\ UNCHANGED <<lsCurrentOrgId, lsActiveRole, ssMockRole, lastSet, budgetVars, otherVars>>
    /\ UNCHANGED received
    /\ pending' = Posted(t, {})

setOrgStatusForClientFE(t, clientId, orgId, status) ==
    /\ lastOp' = Op("setOrgStatusForClientFE", t, <<clientId, orgId, status>>)
    /\ IF StatusNull
       \* m[clientId] of a null map: TypeError, outside any try
       THEN ret' = Thrown /\ UNCHANGED <<lsOrgStatus, lastSet>>
       ELSE /\ lsOrgStatus' = setItem(lsOrgStatus,
                                      Some(Put(readStatusMap, clientId, orgId, status)))
            /\ lastSet' = [p \in DOMAIN lastSet \cup {<<clientId, orgId>>} |->
                              IF p = <<clientId, orgId>> THEN status ELSE lastSet[p]]
            /\ ret' = None
    /\ UNCHANGED <<lsCurrentOrgId, lsActiveRole, ssMockRole, ssOrgSeeded, budgetVars,
                   otherVars>>
    /\ UNCHANGED received
    /\ pending' = Posted(t, {})

setViewerRoleFE_keepsOverrides(t, role) ==
    /\ lsActiveRole' = Some(role)
    /\ ssMockRole' = [ssMockRole EXCEPT ![t] = Some(role)]
    /\ ssOrgSeeded' = [ssOrgSeeded EXCEPT ![t] = None]
    /\ lastSet' = <<>>
    /\ lastOp' = Op("setViewerRoleFE", t, <<role>>)
    /\ ret' = None
    /\ UNCHANGED <<lsOrgStatus, lsCurrentOrgId, budgetVars, otherVars>>
    /\ UNCHANGED received
    /\ pending' = Posted(t, {})

\* setViewerRoleFE(role) in tab t.  The first setItem is outside any try: a
\* rejected write throws out of the function before anything else is done.
setViewerRoleFE(t, role) ==
    /\ lastOp' = Op("setViewerRoleFE", t, <<role>>)
    /\ IF rejects
       THEN /\ ret' = Thrown
            /\ UNCHANGED <<lsActiveRole, ssMockRole, lsOrgStatus, ssOrgSeeded, lastSet>>
       ELSE /\ lsActiveRole' = Some(role)
            /\ ssMockRole' = [ssMockRole EXCEPT ![t] = Some(role)]
            /\ lsOrgStatus' = None
            /\ ssOrgSeeded' = [ssOrgSeeded EXCEPT ![t] = None]
            /\ lastSet' = <<>>
            /\ ret' = None
    /\ UNCHANGED <<lsCurrentOrgId, budgetVars, otherVars>>
    /\ UNCHANGED received
    /\ pending' = Posted(t, {})

clearViewerRoleFE(t) ==
    /\ lsActiveRole' = None
    /\ ssMockRole' = [ssMockRole EXCEPT ![t] = None]
    /\ ssOrgSeeded' = [ssOrgSeeded EXCEPT ![t] = None]
    /\ lastOp' = Op("clearViewerRoleFE", t, <<>>)
    /\ ret' = None
    /\ UNCHANGED <<lsOrgStatus, lsCurrentOrgId, lastSet, budgetVars, otherVars>>
    /\ UNCHANGED received
    /\ pending' = Posted(t, {})

\* (item || '').toLowerCase() is one of the three roles; the roles the code
\* stores are lower-case already
IsRole(item) == item # None /\ item[1] \in ViewerRole

getViewerRoleFE_persistentFirst(t) ==
    IF IsRole(lsActiveRole) THEN lsActiveRole[1]
    ELSE IF IsRole(ssMockRole[t]) THEN ssMockRole[t][1]
    ELSE "family"

\* getViewerRoleFE() in tab t, mock mode: the session role, else the
\* persistent role, else 'family'
getViewerRoleFE(t) ==
    IF IsRole(ssMockRole[t]) THEN ssMockRole[t][1]
    ELSE IF IsRole(lsActiveRole) THEN lsActiveRole[1]
    ELSE "family"

\* setCurrentOrgIdFE(id): one setItem outside any try
setCurrentOrgIdFE(t, id) ==
    /\ lastOp' = Op("setCurrentOrgIdFE", t, <<id>>)
    /\ IF rejects
       THEN ret' = Thrown /\ UNCHANGED lsCurrentOrgId
       ELSE ret' = None /\ lsCurrentOrgId' = Some(id)
    /\ UNCHANGED <<lsOrgStatus, lsActiveRole, ssMockRole, ssOrgSeeded, lastSet,
                   budgetVars, otherVars>>
    /\ UNCHANGED received
    /\ pending' = Posted(t, {})

\* AccessMenu.selectOrg(orgId): setCurrentOrgIdFE(orgId), then seedOrgStatusDefaultsFE();
\* an exception of setCurrentOrgIdFE ends the handler
selectOrg(t, orgId) ==
    LET seeded == SeedEffect(lsOrgStatus, ssOrgSeeded[t], IF orgId = "" THEN "org1" ELSE orgId)
    IN  /\ lastOp' = Op("selectOrg", t, <<orgId>>)
        /\ IF rejects
           THEN ret' = Thrown /\ UNCHANGED <<lsCurrentOrgId, lsOrgStatus, ssOrgSeeded>>
           ELSE /\ lsCurrentOrgId' = Some(orgId)
                /\ lsOrgStatus' = seeded.status
                /\ ssOrgSeeded' = [ssOrgSeeded EXCEPT ![t] = seeded.flag]
                /\ ret' = None
        /\ UNCHANGED <<lsActiveRole, ssMockRole, lastSet, budgetVars, otherVars>>
        /\ UNCHANGED received
        /\ pending' = Posted(t, IF rejects THEN {} ELSE {"__org_touch__"})

resolveAccess_overrideOrPending(override, c) ==
    IF override # None THEN override[1] ELSE "pending"

\* the priority cascade of the client list:
\* override ?? ((c.orgAccess as OrgAccess) ?? 'approved')
resolveAccess(override, c) ==
    IF override # None THEN override[1]
    ELSE IF c.orgAccess # None THEN c.orgAccess[1]
    ELSE "approved"

\* getOrgStatusForClientFE(c._id, orgId) || 'pending'
statusOrPending(override) ==
    IF override = None \/ override = Some("") THEN "pending" ELSE override[1]

View(id, name, orgAccess) == [id |-> id, name |-> name, orgAccess |-> orgAccess]

\* loadClients() of the client list page, mock branch: seed, then map the clients
loadClients(t) ==
    LET m      == IF SeedNow(t).status = None THEN EmptyMap ELSE SeedNow(t).status[1]
        mapped == [i \in 1..Len(getClientsFE) |->
                     View(getClientsFE[i]._id, getClientsFE[i].name,
                          resolveAccess(Lookup(m, getClientsFE[i]._id, getCurrentOrgIdFE),
                                        getClientsFE[i]))]
    IN  /\ lsOrgStatus' = SeedNow(t).status
        /\ ssOrgSeeded' = [ssOrgSeeded EXCEPT ![t] = SeedNow(t).flag]
        /\ lastOp' = Op("loadClients", t, <<>>)
        /\ ret' = Some(mapped)
        /\ UNCHANGED <<lsCurrentOrgId, lsActiveRole, ssMockRole, lastSet, budgetVars,
                       otherVars>>
        /\ UNCHANGED received
        /\ pending' = Posted(t, {})

\* loadClientsWithOrgAccess() of the add-transaction page and, with the same
\* body, of the transaction-history page
loadClientsWithOrgAccess(t) ==
    LET m      == IF SeedNow(t).status = None THEN EmptyMap ELSE SeedNow(t).status[1]
        mapped == [i \in 1..Len(getClientsFE) |->
                     View(getClientsFE[i]._id, getClientsFE[i].name,
                          statusOrPending(Lookup(m, getClientsFE[i]._id, getCurrentOrgIdFE)))]
    IN  /\ lsOrgStatus' = SeedNow(t).status
        /\ ssOrgSeeded' = [ssOrgSeeded EXCEPT ![t] = SeedNow(t).flag]
        /\ lastOp' = Op("loadClientsWithOrgAccess", t, <<>>)
        /\ ret' = Some(mapped)
        /\ UNCHANGED <<lsCurrentOrgId, lsActiveRole, ssMockRole, lastSet, budgetVars,
                       otherVars>>
        /\ UNCHANGED received
        /\ pending' = Posted(t, {})

TxIdInputs == {TxId(n) : n \in 1..3} \cup {TxId(n) : n \in FirstNow..(FirstNow + MaxAdded)}

AddStep      == \E in \in NewTxInputs, now \in clock..(clock + 1) :
                    \E t \in OneTab : addTransactionFE(t, in, now)
SetStatusStep == \E id \in TxIdInputs, s \in TxStatus :
                    \E t \in OneTab : setTransactionStatusFE(t, id, s)

Next == AddStep \/ SetStatusStep

Spec == Init /\ [][Next]_vars

(***************************************************************************)
(* The access runs: every tab may log in, pick an organisation, write an   *)
(* override, seed, and load one of the pages.                              *)
(***************************************************************************)
LoginRoles     == {"management"}
OrgInputs      == {"org1", "org2"}
OverrideInputs == {FULL_DASH_ID} \X OrgInputs \X OrgStatusFE

LoginStep     == \E t \in Tabs, r \in LoginRoles : setViewerRoleFE(t, r)
LogoutStep    == \E t \in Tabs : clearViewerRoleFE(t)
SelectOrgStep == \E t \in Tabs, o \in OrgInputs : selectOrg(t, o)
OverrideStep  == \E t \in Tabs, in \in OverrideInputs :
                    setOrgStatusForClientFE(t, in[1], in[2], in[3])
SeedStep      == \E t \in Tabs : seedOrgStatusDefaultsFE(t)
StatusReadStep == \E t \in Tabs, in \in OverrideInputs :
                    /\ ret' = getOrgStatusForClientFE(in[1], in[2])
                    /\ lastOp' = Op("getOrgStatusForClientFE", t, <<in[1], in[2]>>)
                    /\ UNCHANGED <<accessVars, budgetVars, otherVars, silent>>
ClientListStep == \E t \in Tabs : loadClients(t)
TxPageStep    == \E t \in Tabs : loadClientsWithOrgAccess(t)

NextAccess == LoginStep \/ LogoutStep \/ SelectOrgStep \/ OverrideStep \/ SeedStep
              \/ StatusReadStep \/ ClientListStep \/ TxPageStep

SpecAccess == Init /\ [][NextAccess]_vars

(***************************************************************************)
(* The read runs: one tab opens the pages of a profile whose items all     *)
(* hold the same kind of text (nothing, text that is not JSON, 'null', or  *)
(* an empty collection), reads every repository and saves task lists.      *)
(***************************************************************************)
PayloadKinds == {"missing", "malformed", "null", "empty"}

StoredAs(kind) ==
    CASE kind = "missing"   -> None
      [] kind = "malformed" -> Malformed
      [] kind = "null"      -> JsonNull
      [] kind = "empty"     -> Some(<<>>)

InitRead ==
    \E kind \in PayloadKinds :
        /\ lsTransactions = StoredAs(kind)
        /\ lsBudget = StoredAs(kind)
        /\ lsOrgStatus = StoredAs(kind)
        /\ lsTasks = StoredAs(kind)
        /\ lsRequests = StoredAs(kind)
        /\ lsTaskCatalog = StoredAs(kind)
        /\ lsAnnualBudget = StoredAs(kind)
        /\ lsCurrentOrgId = None
        /\ lsActiveRole = None
        /\ lsActiveClientId = None
        /\ lsCurrentClientName = None
        /\ ssMockRole = [t \in Tabs |-> None]
        /\ ssOrgSeeded = [t \in Tabs |-> None]
        /\ DEMO_TRANSACTIONS = [t \in Tabs |-> DEMO_TRANSACTIONS_0]
        /\ DEFAULT_BUDGET_BY_CLIENT = [t \in Tabs |-> DEFAULT_BUDGET_BY_CLIENT_0]
        /\ DEMO_REQUESTS = [t \in Tabs |-> DEMO_REQUESTS_0]
        /\ rejects = FALSE
        /\ NothingMounted
        /\ clock = FirstNow
        /\ approveCount = [i \in 1..Len(DEMO_TRANSACTIONS_0) |-> 0]
        /\ statusCalls = 0
        /\ lastSet = <<>>
        /\ lastOp = Op("init", "", <<>>)
        /\ ret = None

\* the task lists a page saves: none, a complete task, a task that has only a
\* due date and a title that is not a string, and two tasks
PartialTask == Task(None, None, Bad("number"), None, None, None, Some("2025-11-01"),
                    None, None, None)
WalkTask    == Task(Some("7"), Some(PARTIAL_DASH_ID), Some("Walk"), None, Some("Daily"),
                    Some("2025-10-30"), None, Some("Completed"), Some(<<"done">>), None)
TaskInputs  == { <<>>, <<DEMO_TASKS[3]>>, <<PartialTask>>, <<WalkTask, PartialTask>> }

ReadClients == {FULL_DASH_ID, OtherClient}

TasksReadStep    == \E t \in OneTab : getTasksFE(t)
SaveTasksStep    == \E t \in OneTab, L \in TaskInputs : saveTasksFE(t, L)
TxReadStep       == \E t \in OneTab, c \in ReadClients : getTransactionsFE(t, c)
BudgetReadStep   == \E t \in OneTab, c \in ReadClients : getBudgetRowsFE(t, c)
RequestsReadStep == \E t \in OneTab, c \in ReadClients : getRequestsByClientFE(t, c)
CatalogReadStep  == \E t \in OneTab : getTaskCatalogFE(t)
AnnualReadStep   == \E t \in OneTab, c \in ReadClients : getAnnualBudgetFE(t, c, "2025")
OverrideReadStep == \E t \in OneTab, c \in ReadClients :
                       /\ ret' = getOrgStatusForClientFE(c, getCurrentOrgIdFE)
                       /\ lastOp' = Op("getOrgStatusForClientFE", t, <<c, getCurrentOrgIdFE>>)
                       /\ UNCHANGED <<accessVars, budgetVars, otherVars, silent>>

NextRead == TasksReadStep \/ SaveTasksStep \/ TxReadStep \/ BudgetReadStep
            \/ RequestsReadStep \/ CatalogReadStep \/ AnnualReadStep \/ OverrideReadStep

SpecRead == InitRead /\ [][NextRead]_vars

(***************************************************************************)
(* The remaining mutations of the mock API                                 *)
(***************************************************************************)
\* writeActiveClientToStorage(id, name) in tab t: neither setItem is guarded;
\* name is "" when it is not passed
writeActiveClientToStorage(t, id, name) ==
    /\ lastOp' = Op("writeActiveClientToStorage", t, <<id, name>>)
    /\ IF rejects
       THEN ret' = Thrown /\ UNCHANGED <<lsActiveClientId, lsCurrentClientName>>
       ELSE /\ ret' = None
            /\ lsActiveClientId' = Some(id)
            /\ lsCurrentClientName' = IF name # "" THEN Some(name) ELSE lsCurrentClientName
    /\ UNCHANGED <<lsTasks, lsRequests, lsTaskCatalog, lsAnnualBudget, DEMO_REQUESTS,
                   quietVars, budgetVars, accessVars, silent>>

\* what a caller passes to addRequestFE: createdAt and status are optional
RequestInput(clientId, detail, reason, createdAt, status) ==
    [clientId |-> clientId, detail |-> detail, reason |-> reason,
     createdAt |-> createdAt, status |-> status]

\* addRequestFE(req) in tab t; now is what Date.now() returns.  The list
\* read is the module's DEMO_REQUESTS array itself when the item seeds, so
\* the push reaches it; the push on null is a TypeError
addRequestFE(t, req, now) ==
    LET all    == readRequestsAll(t)
        withId == Request(RqId(now), req.clientId,
                          IF req.createdAt = None THEN now ELSE req.createdAt[1],
                          req.detail, req.reason,
                          IF req.status = None THEN "Pending" ELSE req.status[1])
    IN  /\ now >= clock /\ now <= FirstNow + MaxAdded
        /\ clock' = now
        /\ lastOp' = Op("addRequestFE", t, <<req>>)
        /\ IF RequestsNull
           THEN /\ ret' = Thrown
                /\ UNCHANGED <<lsRequests, DEMO_REQUESTS>>
           ELSE /\ Len(all) < Len(DEMO_REQUESTS_0) + MaxRequests
                /\ lsRequests' = setItem(lsRequests, Some(Append(all, withId)))
                /\ DEMO_REQUESTS' = IF RequestsSeeds
                                    THEN [DEMO_REQUESTS EXCEPT ![t] = Append(all, withId)]
                                    ELSE DEMO_REQUESTS
                /\ ret' = Some(withId.id)
        /\ UNCHANGED <<lsTasks, lsTaskCatalog, lsAnnualBudget, lsActiveClientId,
                       lsCurrentClientName, quietVars, accessVars, silent>>
        /\ UNCHANGED <<lsTransactions, lsBudget, DEMO_TRANSACTIONS,
                       DEFAULT_BUDGET_BY_CLIENT, approveCount, statusCalls>>

\* Math.max(0, Math.floor(total || 0)) of a whole number
WholeTotal(total) == IF total < 0 THEN 0 ELSE total

\* setAnnualBudgetFE(clientId, year, total) in tab t: the event follows the
\* (guarded) write; indexing the map parsed from 'null' is a TypeError
setAnnualBudgetFE(t, clientId, year, total) ==
    /\ lastOp' = Op("setAnnualBudgetFE", t, <<clientId, year, total>>)
    /\ IF AnnualNull
       THEN /\ ret' = Thrown
            /\ UNCHANGED <<lsAnnualBudget, received>>
       ELSE /\ ret' = None
            /\ lsAnnualBudget' = setItem(lsAnnualBudget,
                                   Some(Put(readAnnualBudgetMap, clientId, year,
                                            WholeTotal(total))))
            /\ received' = emitBudgetChanged(t, "annual-total", lsAnnualBudget')
    /\ UNCHANGED <<lsTasks, lsRequests, lsTaskCatalog, lsActiveClientId,
                   lsCurrentClientName, DEMO_REQUESTS, quietVars, budgetVars,
                   accessVars, pending>>

(***************************************************************************)
(* The quota runs: the store rejects every write (quota reached, storage   *)
(* disabled) of a profile that is either fresh or was filled by an earlier *)
(* session, and one tab calls the nine mutations.                          *)
(***************************************************************************)
Profiles == {"fresh", "used"}

InitQuota ==
    \E profile \in Profiles :
        /\ lsTransactions = IF profile = "used" THEN Some(DEMO_TRANSACTIONS_0) ELSE None
        /\ lsBudget = IF profile = "used" THEN Some(DEFAULT_BUDGET_BY_CLIENT_0) ELSE None
        /\ lsOrgStatus = IF profile = "used"
                         THEN Some(Put(EmptyMap, FULL_DASH_ID, "org1", "approved"))
                         ELSE None
        /\ lsTasks = IF profile = "used" THEN Some(hydrated(DEMO_TASKS)) ELSE None
        /\ lsRequests = IF profile = "used" THEN Some(DEMO_REQUESTS_0) ELSE None
        /\ lsTaskCatalog = None
        /\ lsAnnualBudget = IF profile = "used"
                            THEN Some(Put(EmptyMap, FULL_DASH_ID, "2025", 500))
                            ELSE None
        /\ lsCurrentOrgId = IF profile = "used" THEN Some("org1") ELSE None
        /\ lsActiveRole = IF profile = "used" THEN Some("carer") ELSE None
        /\ lsActiveClientId = IF profile = "used" THEN Some(FULL_DASH_ID) ELSE None
        /\ lsCurrentClientName = None
        /\ ssMockRole = [t \in Tabs |-> None]
        /\ ssOrgSeeded = [t \in Tabs |-> None]
        /\ DEMO_TRANSACTIONS = [t \in Tabs |-> DEMO_TRANSACTIONS_0]
        /\ DEFAULT_BUDGET_BY_CLIENT = [t \in Tabs |-> DEFAULT_BUDGET_BY_CLIENT_0]
        /\ DEMO_REQUESTS = [t \in Tabs |-> DEMO_REQUESTS_0]
        /\ rejects = TRUE
        /\ NothingMounted
        /\ clock = FirstNow
        /\ approveCount = [i \in 1..Len(DEMO_TRANSACTIONS_0) |-> 0]
        /\ statusCalls = 0
        /\ lastSet = <<>>
        /\ lastOp = Op("init", "", <<>>)
        /\ ret = None

RequestInputs ==
    { RequestInput(FULL_DASH_ID, "Move the walk to 9am.", "Clinic at 10.", None, None),
      RequestInput(PARTIAL_DASH_ID, "Details: fix gate", "", Some(30), Some("Approved")) }

QuotaRoleStep     == \E t \in OneTab, r \in LoginRoles : setViewerRoleFE(t, r)
QuotaOrgStep      == \E t \in OneTab, o \in {"org2"} : setCurrentOrgIdFE(t, o)
QuotaClientStep   == \E t \in OneTab, n \in {"Mary Hong"} :
                        writeActiveClientToStorage(t, PARTIAL_DASH_ID, n)
QuotaOverrideStep == \E t \in OneTab, s \in {"revoked"} :
                        setOrgStatusForClientFE(t, FULL_DASH_ID, "org1", s)
QuotaTasksStep    == \E t \in OneTab, L \in {<<>>, <<WalkTask>>} : saveTasksFE(t, L)
QuotaAddTxStep    == \E t \in OneTab, in \in NewTxInputs :
                        addTransactionFE(t, in, clock + 1)
QuotaStatusStep   == \E t \in OneTab, s \in {"Approved"} :
                        setTransactionStatusFE(t, TxId(3), s)
QuotaRequestStep  == \E t \in OneTab, r \in RequestInputs :
                        addRequestFE(t, r, clock + 1)
QuotaAnnualStep   == \E t \in OneTab, total \in {-5, 1200} :
                        setAnnualBudgetFE(t, FULL_DASH_ID, "2025", total)

NextQuota == QuotaRoleStep \/ QuotaOrgStep \/ QuotaClientStep \/ QuotaOverrideStep
             \/ QuotaTasksStep \/ QuotaAddTxStep \/ QuotaStatusStep
             \/ QuotaRequestStep \/ QuotaAnnualStep

SpecQuota == InitQuota /\ [][NextQuota]_vars

(***************************************************************************)
(* The backend branches (isMock false).  fetched is the list of requests   *)
(* the tab has sent; res is the response the backend gives to the call.    *)
(***************************************************************************)
MaxFetched == 2       \* requests sent in a run

\* throw new Error(...) inside an async function: the promise is rejected
ThrownError == <<"thrown", "Error", "">>

\* a response: ok is res.ok, isArray is Array.isArray(await res.json())
Response(ok, isArray) == [ok |-> ok, isArray |-> isArray]
Responses == { Response(TRUE, TRUE), Response(TRUE, FALSE), Response(FALSE, FALSE) }

Body == <<"item">>    \* the array a 2xx response carries

\* the frame of a backend branch: no stored item, page or bus is touched
backendFrame == <<repoVars, budgetVars, accessVars, silent, rejects, subscribers,
                  openPage, visible, shownTasks, shownClients, shownBudget, held, requests, reqLog>>

\* const res = await fetch(url, { method })
Sent(method, url) == Append(fetched, <<method, url>>)

\* if (!res.ok) throw ...; return Array.isArray(data) ? data : []
ListOrThrow(res) ==
    IF ~res.ok THEN ThrownError
    ELSE IF res.isArray THEN Some(Body) ELSE Some(<<>>)

getClientsFE_backend(t, res) ==
    /\ Len(fetched) < MaxFetched
    /\ fetched' = Sent("GET", "/api/v1/clients")
    /\ lastOp' = Op("getClientsFE", t, <<>> \o <<res>>)
    /\ ret' = ListOrThrow(res)
    /\ UNCHANGED backendFrame

\* if (!res.ok) return null; return await res.json()
getClientByIdFE_backend(t, id, res) ==
    /\ Len(fetched) < MaxFetched
    /\ fetched' = Sent("GET", "/api/v1/clients/:id")
    /\ lastOp' = Op("getClientByIdFE", t, <<id>> \o <<res>>)
    /\ ret' = IF ~res.ok THEN JsonNull ELSE Some("client")
    /\ UNCHANGED backendFrame

getTasksFE_backend(t, res) ==
    /\ Len(fetched) < MaxFetched
    /\ fetched' = Sent("GET", "/api/v1/tasks")
    /\ lastOp' = Op("getTasksFE", t, <<>> \o <<res>>)
    /\ ret' = ListOrThrow(res)
    /\ UNCHANGED backendFrame

saveTasksFE_backend(t, tasks, res) ==
    /\ Len(fetched) < MaxFetched
    /\ fetched' = Sent("POST", "/api/v1/tasks")
    /\ lastOp' = Op("saveTasksFE", t, <<tasks>> \o <<res>>)
    /\ ret' = IF ~res.ok THEN ThrownError ELSE None
    /\ UNCHANGED backendFrame

getBudgetRowsFE_backend(t, clientId, res) ==
    /\ Len(fetched) < MaxFetched
    /\ fetched' = Sent("GET", "/api/v1/clients/:id/budget")
    /\ lastOp' = Op("getBudgetRowsFE", t, <<clientId>> \o <<res>>)
    /\ ret' = ListOrThrow(res)
    /\ UNCHANGED backendFrame

getTransactionsFE_backend(t, clientId, res) ==
    /\ Len(fetched) < MaxFetched
    /\ fetched' = Sent("GET", "/api/v1/clients/:id/transactions")
    /\ lastOp' = Op("getTransactionsFE", t, <<clientId>> \o <<res>>)
    /\ ret' = ListOrThrow(res)
    /\ UNCHANGED backendFrame

\* return created?.id ?? '' (an array has no id)
addTransactionFE_backend(t, in, res) ==
    /\ Len(fetched) < MaxFetched
    /\ fetched' = Sent("POST", "/api/transactions")
    /\ lastOp' = Op("addTransactionFE", t, <<in>> \o <<res>>)
    /\ ret' = IF ~res.ok THEN ThrownError
              ELSE IF res.isArray THEN Some("") ELSE Some("created")
    /\ UNCHANGED backendFrame

\* if (!res.ok) return [];
getUsersWithAccessFE_backend(t, clientId, res) ==
    /\ Len(fetched) < MaxFetched
    /\ fetched' = Sent("GET", "/api/v1/clients/:id/access")
    /\ lastOp' = Op("getUsersWithAccessFE", t, <<clientId>> \o <<res>>)
    /\ ret' = IF ~res.ok THEN Some(<<>>) ELSE ListOrThrow(res)
    /\ UNCHANGED backendFrame

\* if (!isMock) return;
setTransactionStatusFE_backend(t, txId, status) ==
    /\ lastOp' = Op("setTransactionStatusFE", t, <<txId, status>>)
    /\ ret' = None
    /\ UNCHANGED <<backendFrame, fetched>>

\* if (!isMock) { return []; }
getRequestsByClientFE_backend(t, clientId) ==
    /\ lastOp' = Op("getRequestsByClientFE", t, <<clientId>>)
    /\ ret' = Some(<<>>)
    /\ UNCHANGED <<backendFrame, fetched>>

\* if (!isMock) { return []; }
getTaskCatalogFE_backend(t) ==
    /\ lastOp' = Op("getTaskCatalogFE", t, <<>>)
    /\ ret' = Some(<<>>)
    /\ UNCHANGED <<backendFrame, fetched>>

ClientsFetchStep  == \E t \in OneTab, res \in Responses : getClientsFE_backend(t, res)
ClientFetchStep   == \E t \in OneTab, res \in Responses :
                        getClientByIdFE_backend(t, FULL_DASH_ID, res)
TasksFetchStep    == \E t \in OneTab, res \in Responses : getTasksFE_backend(t, res)
TasksPostStep     == \E t \in OneTab, res \in Responses :
                        saveTasksFE_backend(t, <<WalkTask>>, res)
BudgetFetchStep   == \E t \in OneTab, res \in Responses :
                        getBudgetRowsFE_backend(t, FULL_DASH_ID, res)
TxFetchStep       == \E t \in OneTab, res \in Responses :
                        getTransactionsFE_backend(t, FULL_DASH_ID, res)
TxPostStep        == \E t \in OneTab, res \in Responses, in \in NewTxInputs :
                        addTransactionFE_backend(t, in, res)
AccessFetchStep   == \E t \in OneTab, res \in Responses :
                        getUsersWithAccessFE_backend(t, FULL_DASH_ID, res)
TxStatusSkipStep  == \E t \in OneTab, s \in TxStatus :
                        setTransactionStatusFE_backend(t, TxId(1), s)
RequestsSkipStep  == \E t \in OneTab : getRequestsByClientFE_backend(t, FULL_DASH_ID)
CatalogSkipStep   == \E t \in OneTab : getTaskCatalogFE_backend(t)

NextBackend == ClientsFetchStep \/ ClientFetchStep \/ TasksFetchStep \/ TasksPostStep
               \/ BudgetFetchStep \/ TxFetchStep \/ TxPostStep \/ AccessFetchStep
               \/ TxStatusSkipStep \/ RequestsSkipStep \/ CatalogSkipStep

SpecBackend == Init /\ [][NextBackend]_vars

(***************************************************************************)
(* The request log page: normalizeOne.  A text is the sequence of its      *)
(* pieces: a word, a blank, a line break, the marker "Reason:" in one of   *)
(* its spellings, or the label "Details:".  undefined is None.             *)
(***************************************************************************)
MaxLen == 4        \* pieces in the detail of a legacy record

Words      == {"x"}
Whitespace == {" ", "\n"}
Markers    == {"Reason:", "REASON<U+FF1A>"}     \* /Reason[:<U+FF1A>]/i
Labels     == {"Details:"}                    \* /Details[:<U+FF1A>]/i
Pieces     == Words \cup Whitespace \cup Markers \cup Labels

\* /Reason[:<U+FF1A>]/i.test(txt)
HasMarker(txt) == \E i \in 1..Len(txt) : txt[i] \in Markers

\* the first position from i on that does not hold whitespace (Len + 1 if none)
RECURSIVE SkipWs(_, _)
SkipWs(txt, i) ==
    IF i <= Len(txt) /\ txt[i] \in Whitespace THEN SkipWs(txt, i + 1) ELSE i

\* /\n+\s*Reason[:<U+FF1A>]\s*/i matches at i: a line break, any whitespace, the marker
MatchesAt(txt, i) ==
    /\ i <= Len(txt) /\ txt[i] = "\n"
    /\ SkipWs(txt, i) <= Len(txt) /\ txt[SkipWs(txt, i)] \in Markers

\* the position after the match at i (the whitespace after the marker included)
MatchEnd(txt, i) == SkipWs(txt, SkipWs(txt, i) + 1)

\* txt.split(/\n+\s*Reason[:<U+FF1A>]\s*/i): from is where the current part
\* starts, i where the next match is looked for
RECURSIVE SplitFrom(_, _, _)
SplitFrom(txt, from, i) ==
    IF i > Len(txt) THEN << SubSeq(txt, from, Len(txt)) >>
    ELSE IF MatchesAt(txt, i)
         THEN << SubSeq(txt, from, i - 1) >>
              \o SplitFrom(txt, MatchEnd(txt, i), MatchEnd(txt, i))
         ELSE SplitFrom(txt, from, i + 1)

split(txt) == SplitFrom(txt, 1, 1)

\* parts.join('\n')
RECURSIVE join(_)
join(parts) ==
    IF parts = <<>> THEN <<>>
    ELSE IF Len(parts) = 1 THEN parts[1]
    ELSE parts[1] \o <<"\n">> \o join(Tail(parts))

\* txt.trim()
RECURSIVE trimEnd(_)
trimEnd(txt) ==
    IF txt # <<>> /\ txt[Len(txt)] \in Whitespace
    THEN trimEnd(SubSeq(txt, 1, Len(txt) - 1)) ELSE txt

trim(txt) == trimEnd(SubSeq(txt, SkipWs(txt, 1), Len(txt)))

\* txt.replace(/^Details[:<U+FF1A>]\s*/i, '')
stripLabel(txt) ==
    IF txt # <<>> /\ txt[1] \in Labels
    THEN SubSeq(txt, SkipWs(txt, 2), Len(txt)) ELSE txt

\* splitCombined(txt)
splitCombined(txt) ==
    LET m == split(txt)
    IN  IF Len(m) >= 2
        THEN [detail |-> trim(stripLabel(m[1])), reason |-> Some(trim(join(Tail(m))))]
        ELSE [detail |-> trim(txt), reason |-> None]

\* !reason: undefined or the empty string
NoReason(reason) == reason = None \/ reason = Some(<<>>)

\* normalizeOne(raw): { ...raw, detail, reason }
normalizeOne(raw) ==
    IF NoReason(raw.reason) /\ raw.detail # None /\ HasMarker(raw.detail[1])
    THEN [raw EXCEPT !.detail = Some(splitCombined(raw.detail[1]).detail),
                     !.reason = splitCombined(raw.detail[1]).reason]
    ELSE raw

\* the texts of at most n pieces
RECURSIVE Texts(_)
Texts(n) ==
    IF n = 0 THEN { <<>> }
    ELSE Texts(n - 1) \cup { Append(s, p) : s \in Texts(n - 1), p \in Pieces }

\* the records a store written by earlier versions holds
LegacyRecords ==
    { [id |-> RqId(1), detail |-> d, reason |-> r] :
        d \in {None} \cup { Some(s) : s \in Texts(MaxLen) },
        r \in {None, Some(<<>>), Some(<<"x">>)} }

\* the page receives a record of the list getRequestsByClientFE resolved to
recordLoaded(t, raw) ==
    /\ reqLog = <<>>
    /\ reqLog' = <<raw>>
    /\ lastOp' = Op("getRequestsByClientFE", t, <<>>)
    /\ UNCHANGED <<ret, repoVars, budgetVars, accessVars, silent, rejects, subscribers,
                   openPage, visible, shownTasks, shownClients, shownBudget, held, requests, fetched>>

\* normalize: the page applies normalizeOne to what it holds (on the first
\* load to the record read, afterwards to its own result)
normalizeStep(t) ==
    /\ reqLog # <<>> /\ Len(reqLog) < 3
    /\ reqLog' = Append(reqLog, normalizeOne(reqLog[Len(reqLog)]))
    /\ lastOp' = Op("normalizeOne", t, <<>>)
    /\ UNCHANGED <<ret, repoVars, budgetVars, accessVars, silent, rejects, subscribers,
                   openPage, visible, shownTasks, shownClients, shownBudget, held, requests, fetched>>

RecordStep    == \E t \in OneTab, raw \in LegacyRecords : recordLoaded(t, raw)
NormalizeStep == \E t \in OneTab : normalizeStep(t)

NextNormalize == RecordStep \/ NormalizeStep

SpecNormalize == Init /\ [][NextNormalize]_vars

(***************************************************************************)
(* The bus runs: one tab subscribes and unsubscribes listeners and calls   *)
(* the transaction and budget mutations.                                   *)
(***************************************************************************)
MaxEvents == 2      \* events a listener is given in a run

\* subscribeBudgetFE(handler) in tab t: h is the listener fn the call creates
subscribeBudgetFE(t, h) ==
    /\ received[h].fn = "none"
    /\ subscribers' = [subscribers EXCEPT ![t] = @ \cup {h}]
    /\ received' = [received EXCEPT ![h].fn = "added"]
    /\ lastOp' = Op("subscribeBudgetFE", t, <<h>>)
    /\ UNCHANGED <<ret, repoVars, budgetVars, accessVars, pending, rejects, openPage,
                   visible, shownTasks, shownClients, shownBudget, held, requests, fetched, reqLog>>

\* the function subscribeBudgetFE returned, called in tab t
unsubscribe(t, h) ==
    /\ h \in subscribers[t]
    /\ subscribers' = [subscribers EXCEPT ![t] = @ \ {h}]
    /\ received' = [received EXCEPT ![h].fn = "removed"]
    /\ lastOp' = Op("unsubscribe", t, <<h>>)
    /\ UNCHANGED <<ret, repoVars, budgetVars, accessVars, pending, rejects, openPage,
                   visible, shownTasks, shownClients, shownBudget, held, requests, fetched, reqLog>>

BusTxIds == {TxId(3), TxId(7)}      \* a stored transaction and an unknown id

SubscribeStep   == \E t \in OneTab, h \in SubIds : subscribeBudgetFE(t, h)
UnsubscribeStep == \E t \in OneTab, h \in SubIds : unsubscribe(t, h)
BusAddStep      == \E t \in OneTab :
                      addTransactionFE(t, <<FULL_DASH_ID, "Clothing", "Socks", Tenths(20), "">>,
                                       clock + 1)
BusStatusStep   == \E t \in OneTab, id \in BusTxIds, s \in {"Approved", "Rejected"} :
                      setTransactionStatusFE(t, id, s)
BusAnnualStep   == \E t \in OneTab, total \in {1200} :
                      /\ \A h \in SubIds : received[h].n < MaxEvents
                      /\ setAnnualBudgetFE(t, FULL_DASH_ID, "2025", total)

NextBus == SubscribeStep \/ UnsubscribeStep \/ BusAddStep \/ BusStatusStep
           \/ BusAnnualStep

SpecBus == Init /\ [][NextBus]_vars

(***************************************************************************)
(* The sync runs: two tabs of one profile mount pages; tab A edits, and    *)
(* the pages reload on storage events and when they become visible.        *)
(***************************************************************************)
MaxComments == 2     \* comments on a task

Pages == {"schedule", "clients", "budget", "transactions"}

\* what the page steps leave alone
offstage == <<rejects, subscribers, received, fetched, reqLog, ret, held, requests>>

\* what getTasksFE returns and what it leaves under 'tasks'
TasksRead == IF TasksUsable(lsTasks) /\ ~rejects THEN hydrated(lsTasks[1]) ELSE DEMO_TASKS
TasksAfterRead ==
    IF TasksUsable(lsTasks) /\ ~rejects THEN Some(hydrated(lsTasks[1]))
    ELSE setItem(lsTasks, Some(DEMO_TASKS))

\* base.map(t => ({ ...t, files: [], uploadedFiles: ... })), no file uploaded
merged(base) == [i \in 1..Len(base) |-> [base[i] EXCEPT !.files = Some(<<>>)]]

\* mergeTasksWithFiles() of the schedule page in tab t: getTasks(), setTasks(merged)
mergeTasksWithFiles(t) ==
    /\ lsTasks' = TasksAfterRead
    /\ shownTasks' = [shownTasks EXCEPT ![t] = merged(TasksRead)]
    /\ lastOp' = Op("mergeTasksWithFiles", t, <<>>)
    /\ UNCHANGED <<lsRequests, lsTaskCatalog, lsAnnualBudget, lsActiveClientId,
                   lsCurrentClientName, DEMO_REQUESTS, budgetVars, accessVars,
                   shownClients, shownBudget, offstage>>

\* the list loadClients maps the clients to, for the stored overrides status
mappedClients(status, orgId) ==
    LET m == IF status \in {None, Malformed} THEN EmptyMap ELSE status[1]
    IN  [i \in 1..Len(getClientsFE) |->
            View(getClientsFE[i]._id, getClientsFE[i].name,
                 resolveAccess(Lookup(m, getClientsFE[i]._id, orgId), getClientsFE[i]))]

\* loadClients() of the client list page in tab t, as its listeners call it:
\* seed, map, setClients(mapped)
reloadClients(t) ==
    /\ lsOrgStatus' = SeedNow(t).status
    /\ ssOrgSeeded' = [ssOrgSeeded EXCEPT ![t] = SeedNow(t).flag]
    /\ shownClients' = [shownClients EXCEPT
                           ![t] = mappedClients(SeedNow(t).status, getCurrentOrgIdFE)]
    /\ lastOp' = Op("loadClients", t, <<>>)
    /\ UNCHANGED <<lsCurrentOrgId, lsActiveRole, ssMockRole, lastSet, repoVars,
                   budgetVars, shownTasks, shownBudget, offstage>>

\* the reload of the budget report page in tab t: the rows of the client
reloadBudget(t) ==
    /\ lsBudget' = BudgetAfterRead(t)
    /\ shownBudget' = [shownBudget EXCEPT ![t] = RowsOf(readBudgetMap(t), FULL_DASH_ID)]
    /\ lastOp' = Op("getBudgetRowsFE", t, <<FULL_DASH_ID>>)
    /\ UNCHANGED <<lsTransactions, DEMO_TRANSACTIONS, DEFAULT_BUDGET_BY_CLIENT, clock,
                   approveCount, statusCalls, repoVars, accessVars, shownTasks,
                   shownClients, offstage>>

\* a page without a reload (the transaction history), or no page
nothingToLoad(t) ==
    /\ lastOp' = Op("none", t, <<>>)
    /\ UNCHANGED <<repoVars, budgetVars, accessVars, shownTasks, shownClients,
                   shownBudget, offstage>>

\* the load of page in tab t
load(t, page) ==
    \/ page = "schedule" /\ mergeTasksWithFiles(t)
    \/ page = "clients" /\ reloadClients(t)
    \/ page = "budget" /\ reloadBudget(t)
    \/ page \notin {"schedule", "clients", "budget"} /\ nothingToLoad(t)

\* the page is opened in tab t: its first effect loads
mount(t, page) ==
    /\ openPage[t] = "none" /\ visible[t]
    /\ openPage' = [openPage EXCEPT ![t] = page]
    /\ load(t, page)
    /\ UNCHANGED visible
    /\ pending' = Posted(t, {})

\* the page of tab t is left: its state is dropped and the cleanup of its
\* effect removes the listeners
unmount(t) ==
    /\ openPage[t] # "none" /\ visible[t]
    /\ openPage' = [openPage EXCEPT ![t] = "none"]
    /\ pending' = [pending EXCEPT ![t] = {}]
    /\ shownTasks' = [shownTasks EXCEPT ![t] = <<>>]
    /\ shownClients' = [shownClients EXCEPT ![t] = <<>>]
    /\ shownBudget' = [shownBudget EXCEPT ![t] = <<>>]
    /\ lastOp' = Op("unmount", t, <<>>)
    /\ UNCHANGED <<repoVars, budgetVars, accessVars, offstage, visible>>

\* onStorage(e) in tab t for an event of a key the page listens to
onStorage(t, key) ==
    /\ key \in pending[t]
    /\ load(t, openPage[t])
    /\ UNCHANGED <<openPage, visible>>
    /\ pending' = [Posted(t, {}) EXCEPT ![t] = pending[t] \ {key}]

\* the event reaches no handler: the hidden tab was frozen or discarded
missed(t, key) ==
    /\ ~visible[t] /\ key \in pending[t]
    /\ pending' = [pending EXCEPT ![t] = @ \ {key}]
    /\ UNCHANGED <<repoVars, budgetVars, accessVars, quietVars, received, lastOp, ret>>

\* visibilitychange in tab t; onVis reloads when the tab has become visible
onVis(t) ==
    /\ visible' = [visible EXCEPT ![t] = ~visible[t]]
    /\ load(t, IF visible[t] THEN "none" ELSE openPage[t])
    /\ UNCHANGED openPage
    /\ pending' = Posted(t, {})

\* addComment(taskId, comment) of the schedule page: setTasks(next), persistTasks(next)
addComment(t, taskId, text) ==
    LET tasks == shownTasks[t]
        next  == [i \in 1..Len(tasks) |->
                    IF tasks[i].id = Some(taskId)
                    THEN [tasks[i] EXCEPT !.comments =
                            Some((IF @ = None THEN <<>> ELSE @[1]) \o <<text>>)]
                    ELSE tasks[i]]
    IN  /\ openPage[t] = "schedule" /\ visible[t]
        /\ \A i \in 1..Len(tasks) :
              tasks[i].id = Some(taskId) => Len(tasks[i].comments[1]) < MaxComments
        /\ shownTasks' = [shownTasks EXCEPT ![t] = next]
        /\ lsTasks' = setItem(lsTasks, Some(next))
        /\ lastOp' = Op("addComment", t, <<taskId, text>>)
        /\ UNCHANGED <<lsRequests, lsTaskCatalog, lsAnnualBudget, lsActiveClientId,
                       lsCurrentClientName, DEMO_REQUESTS, budgetVars, accessVars,
                       shownClients, shownBudget, offstage, openPage, visible>>
        /\ pending' = Posted(t, {})

\* requestAccess(e, id) of the client list page, mock branch
requestAccess(t, id) ==
    /\ openPage[t] = "clients" /\ visible[t]
    /\ ~StatusNull
    /\ lsOrgStatus' = setItem(lsOrgStatus,
                              Some(Put(readStatusMap, id, getCurrentOrgIdFE, "pending")))
    /\ lastSet' = [p \in DOMAIN lastSet \cup {<<id, getCurrentOrgIdFE>>} |->
                      IF p = <<id, getCurrentOrgIdFE>> THEN "pending" ELSE lastSet[p]]
    /\ shownClients' = [shownClients EXCEPT ![t] =
                          [i \in 1..Len(@) |->
                              IF @[i].id = id THEN [@[i] EXCEPT !.orgAccess = "pending"]
                              ELSE @[i]]]
    /\ lastOp' = Op("requestAccess", t, <<id>>)
    /\ UNCHANGED <<lsCurrentOrgId, lsActiveRole, ssMockRole, ssOrgSeeded, repoVars,
                   budgetVars, shownTasks, shownBudget, offstage, openPage, visible>>
    /\ pending' = Posted(t, {})

\* updateStatus(txId, next) of the transaction history page
updateStatus(t, txId, next) ==
    /\ openPage[t] = "transactions" /\ visible[t]
    /\ setTransactionStatusFE(t, txId, next)

MountStep      == \E t \in Tabs, page \in Pages : mount(t, page)
UnmountStep    == \E t \in Tabs : unmount(t)
StorageStep(t) == \E key \in pending[t] : onStorage(t, key)
MissedStep(t)  == \E key \in pending[t] : missed(t, key)
VisStep        == \E t \in Tabs : onVis(t)
CommentStep    == \E t \in OneTab : addComment(t, "1", "ok")
RequestStep    == \E t \in OneTab : requestAccess(t, CATHY_ID)
ApproveStep    == \E t \in OneTab : updateStatus(t, TxId(3), "Approved")

NextSync == MountStep \/ UnmountStep \/ (\E t \in Tabs : StorageStep(t)) \/ (\E t \in Tabs : MissedStep(t))
            \/ VisStep \/ CommentStep \/ RequestStep \/ ApproveStep

\* a queued storage event is a task of the receiving tab's event loop: it is
\* run (or lost with the frozen tab), never left waiting for ever
SpecSync == Init /\ [][NextSync]_vars
            /\ \A t \in Tabs : WF_vars(StorageStep(t) \/ MissedStep(t))

(***************************************************************************)
(* The identifier runs: one tab of a profile that is fresh or holds a task *)
(* list of an earlier version adds transactions, requests and care items   *)
(* and reads the tasks; Date.now() never goes back.                        *)
(***************************************************************************)
\* onCreate() of the add-care-item page in tab t: getTasksFE(), then
\* saveTasksFE([...list, newTask]) with the id `${Date.now()}`
onCreate(t, title, category, now) ==
    LET newTask == Task(Some(ToString(now)), Some(FULL_DASH_ID), Some(title), Some(category),
                        Some(""), Some(""), Some(""), Some("Pending"), Some(<<>>), Some(<<>>))
    IN  /\ now >= clock /\ now <= FirstNow + MaxAdded
        /\ Len(TasksRead) < Len(DEMO_TASKS) + MaxAdded
        /\ clock' = now
        /\ lsTasks' = setItem(TasksAfterRead, Some(Append(TasksRead, newTask)))
        /\ lastOp' = Op("onCreate", t, <<title, category>>)
        /\ ret' = None
        /\ UNCHANGED <<lsRequests, lsTaskCatalog, lsAnnualBudget, lsActiveClientId,
                       lsCurrentClientName, DEMO_REQUESTS, quietVars, accessVars, received>>
        /\ UNCHANGED <<lsTransactions, lsBudget, DEMO_TRANSACTIONS,
                       DEFAULT_BUDGET_BY_CLIENT, approveCount, statusCalls>>
        /\ pending' = Posted(t, {})

\* the task lists an earlier version left: a record without id after the demo
\* task '2', and after a task whose id is no position
LegacyTasks == { <<DEMO_TASKS[2], PartialTask>>, <<WalkTask, PartialTask>> }

InitIds ==
    /\ lsTasks \in {None} \cup { Some(L) : L \in LegacyTasks }
    /\ lsTransactions = None
    /\ lsBudget = None
    /\ lsOrgStatus = None
    /\ lsCurrentOrgId = None
    /\ lsActiveRole = None
    /\ ssMockRole = [t \in Tabs |-> None]
    /\ ssOrgSeeded = [t \in Tabs |-> None]
    /\ DEMO_TRANSACTIONS = [t \in Tabs |-> DEMO_TRANSACTIONS_0]
    /\ DEFAULT_BUDGET_BY_CLIENT = [t \in Tabs |-> DEFAULT_BUDGET_BY_CLIENT_0]
    /\ clock = FirstNow
    /\ approveCount = [i \in 1..Len(DEMO_TRANSACTIONS_0) |-> 0]
    /\ statusCalls = 0
    /\ lsRequests = None
    /\ lsTaskCatalog = None
    /\ lsAnnualBudget = None
    /\ lsActiveClientId = None
    /\ lsCurrentClientName = None
    /\ DEMO_REQUESTS = [t \in Tabs |-> DEMO_REQUESTS_0]
    /\ rejects = FALSE
    /\ NothingMounted
    /\ lastSet = <<>>
    /\ lastOp = Op("init", "", <<>>)
    /\ ret = None

IdsAddTxStep      == \E t \in OneTab, now \in clock..(clock + 1) :
                        addTransactionFE(t, <<FULL_DASH_ID, "New", "Widget", Tenths(15), "">>, now)
IdsAddRequestStep == \E t \in OneTab, r \in RequestInputs, now \in clock..(clock + 1) :
                        addRequestFE(t, r, now)
IdsAddTaskStep    == \E t \in OneTab, now \in clock..(clock + 1) :
                        onCreate(t, "Buy Socks", "Clothing", now)
IdsTasksReadStep  == \E t \in OneTab : getTasksFE(t)
IdsRequestsReadStep == \E t \in OneTab : getRequestsByClientFE(t, FULL_DASH_ID)

NextIds == IdsAddTxStep \/ IdsAddRequestStep \/ IdsAddTaskStep \/ IdsTasksReadStep
           \/ IdsRequestsReadStep

SpecIds == InitIds /\ [][NextIds]_vars

(***************************************************************************)
(* The role runs: two tabs log in with any role, log out, ask for the     *)
(* viewer role and seed the overrides a login has removed.                 *)
(***************************************************************************)
RoleLoginStep  == \E t \in Tabs, r \in ViewerRole : setViewerRoleFE(t, r)
RoleLogoutStep == \E t \in Tabs : clearViewerRoleFE(t)
RoleReadStep   == \E t \in Tabs :
                     /\ ret' = Some(getViewerRoleFE(t))
                     /\ lastOp' = Op("getViewerRoleFE", t, <<>>)
                     /\ UNCHANGED <<accessVars, budgetVars, otherVars, silent>>

RoleSeedStep   == \E t \in Tabs : seedOrgStatusDefaultsFE(t)

NextRole == RoleLoginStep \/ RoleLogoutStep \/ RoleReadStep \/ RoleSeedStep

SpecRole == Init /\ [][NextRole]_vars

(***************************************************************************)
(* The frame runs: one tab, the store accepting or rejecting every write,  *)
(* calls the operations that read or write transactions and budgets,       *)
(* applyTransactionToBudgetFE also directly.                               *)
(***************************************************************************)
\* applyTransactionToBudgetFE(clientId, category, item, amount) in tab t,
\* called on its own; m[clientId] of the map parsed from 'null' is a TypeError
applyTransactionToBudgetFE(t, clientId, category, item, amount) ==
    /\ statusCalls < MaxStatusCalls
    /\ statusCalls' = statusCalls + 1
    /\ lastOp' = Op("applyTransactionToBudgetFE", t, <<clientId, category, item, amount>>)
    /\ IF BudgetNull
       THEN ret' = Thrown /\ UNCHANGED <<lsBudget, DEFAULT_BUDGET_BY_CLIENT>>
       ELSE /\ ret' = None
            /\ lsBudget' = setItem(lsBudget,
                                   Some(AppliedMap(t, clientId, category, item, amount)))
            /\ DEFAULT_BUDGET_BY_CLIENT' =
                  DefaultAfterApply(t, clientId, category, item, amount)
    /\ UNCHANGED <<lsTransactions, DEMO_TRANSACTIONS, clock, approveCount, accessVars,
                   otherVars, received>>
    /\ pending' = Posted(t, {})

InitFrame ==
    /\ rejects \in BOOLEAN
    /\ lsTransactions = None
    /\ lsBudget = None
    /\ lsOrgStatus = None
    /\ lsCurrentOrgId = None
    /\ lsActiveRole = None
    /\ ssMockRole = [t \in Tabs |-> None]
    /\ ssOrgSeeded = [t \in Tabs |-> None]
    /\ DEMO_TRANSACTIONS = [t \in Tabs |-> DEMO_TRANSACTIONS_0]
    /\ DEFAULT_BUDGET_BY_CLIENT = [t \in Tabs |-> DEFAULT_BUDGET_BY_CLIENT_0]
    /\ clock = FirstNow
    /\ approveCount = [i \in 1..Len(DEMO_TRANSACTIONS_0) |-> 0]
    /\ statusCalls = 0
    /\ lsTasks = None
    /\ lsRequests = None
    /\ lsTaskCatalog = None
    /\ lsAnnualBudget = None
    /\ lsActiveClientId = None
    /\ lsCurrentClientName = None
    /\ DEMO_REQUESTS = [t \in Tabs |-> DEMO_REQUESTS_0]
    /\ NothingMounted
    /\ lastSet = <<>>
    /\ lastOp = Op("init", "", <<>>)
    /\ ret = None

FrameTxInputs == { <<FULL_DASH_ID, "Clothing", "Socks",  Tenths(20), "">>,
                   <<OtherClient,  "New",      "Widget", Tenths(15), "Approved">> }
FrameTxIds    == {TxId(1), TxId(3), TxId(FirstNow + 1)}

FrameAddStep    == \E t \in OneTab, in \in FrameTxInputs : addTransactionFE(t, in, clock + 1)
FrameStatusStep == \E t \in OneTab, id \in FrameTxIds, s \in TxStatus :
                      setTransactionStatusFE(t, id, s)
FrameApplyStep  == \E t \in OneTab, in \in FrameTxInputs :
                      applyTransactionToBudgetFE(t, in[1], in[2], in[3], in[4])
FrameAnnualStep == \E t \in OneTab, total \in {1200} :
                      setAnnualBudgetFE(t, FULL_DASH_ID, "2025", total)
FrameRowsStep   == \E t \in OneTab, c \in ReadClients : getBudgetRowsFE(t, c)
FrameTxReadStep == \E t \in OneTab, c \in ReadClients : getTransactionsFE(t, c)

NextFrame == FrameAddStep \/ FrameStatusStep \/ FrameApplyStep \/ FrameAnnualStep
             \/ FrameRowsStep \/ FrameTxReadStep

SpecFrame == InitFrame /\ [][NextFrame]_vars

(***************************************************************************)
(* The race runs: two tabs of one profile, each a thread of its own.  A    *)
(* call is atomic within its tab, but the store has no lock: between the   *)
(* getItem and the setItem of a writer the other tab may read and write.   *)
(* held[t] is what the writer of tab t has in hand between the two.        *)
(***************************************************************************)
Idle == <<>>

\* addTransactionFE(tx) in tab t up to and including readTransactions()
addTransactionFE_reads(t, in, now) ==
    LET all    == readTransactions(t)
        withId == Tx(TxId(now), in[1], in[2], in[3], in[4],
                     IF in[5] = "" THEN "Pending" ELSE in[5],
                     "data:receipt", "", "image/png")
    IN  /\ held[t] = Idle
        /\ Len(all) < Len(DEMO_TRANSACTIONS_0) + MaxAdded
        /\ now >= clock /\ now <= FirstNow + MaxAdded
        /\ clock' = now
        /\ lsTransactions' = TxAfterRead(t)
        /\ held' = [held EXCEPT ![t] = [op |-> "addTransactionFE", all |-> all,
                                        rec |-> withId, own |-> TxSeeds]]
        /\ lastOp' = Op("readTransactions", t, <<>>)
        /\ ret' = None
        /\ UNCHANGED <<lsBudget, DEMO_TRANSACTIONS, DEFAULT_BUDGET_BY_CLIENT, approveCount,
                       statusCalls, accessVars, repoVars, pageVars, silent>>

pushed_ontoStored(t) == Append(readTransactions(t), held[t].rec)

\* all.push(withId): the list the writer of tab t read, with its record
pushed(t) == Append(held[t].all, held[t].rec)

\* the rest of addTransactionFE in tab t: push, writeTransactions, emit
addTransactionFE_writes(t) ==
    /\ held[t] # Idle /\ held[t].op = "addTransactionFE"
    /\ lsTransactions' = setItem(lsTransactions, Some(pushed(t)))
    /\ DEMO_TRANSACTIONS' = IF held[t].own THEN [DEMO_TRANSACTIONS EXCEPT ![t] = pushed(t)]
                            ELSE DEMO_TRANSACTIONS
    /\ approveCount' = Append(approveCount, 0)
    /\ held' = [held EXCEPT ![t] = Idle]
    /\ lastOp' = Op("addTransactionFE", t, <<held[t].rec>>)
    /\ ret' = Some(held[t].rec.id)
    /\ received' = emitBudgetChanged(t, "txn-added", lsTransactions')
    /\ UNCHANGED <<lsBudget, DEFAULT_BUDGET_BY_CLIENT, clock, statusCalls, accessVars,
                   repoVars, pageVars, pending>>

\* setOrgStatusForClientFE(clientId, orgId, status) in tab t up to and
\* including readStatusMap()
setOrgStatusForClientFE_reads(t, clientId, orgId, status) ==
    /\ held[t] = Idle
    /\ ~StatusNull
    /\ held' = [held EXCEPT ![t] = [op |-> "setOrgStatusForClientFE", m |-> readStatusMap,
                                    arg |-> <<clientId, orgId, status>>]]
    /\ lastOp' = Op("readStatusMap", t, <<>>)
    /\ ret' = None
    /\ UNCHANGED <<accessVars, budgetVars, repoVars, pageVars, silent>>

\* the rest of setOrgStatusForClientFE in tab t: the assignment and writeStatusMap(m)
setOrgStatusForClientFE_writes(t) ==
    LET a == held[t].arg
    IN  /\ held[t] # Idle /\ held[t].op = "setOrgStatusForClientFE"
        /\ lsOrgStatus' = setItem(lsOrgStatus, Some(Put(held[t].m, a[1], a[2], a[3])))
        /\ lastSet' = [p \in DOMAIN lastSet \cup {<<a[1], a[2]>>} |->
                          IF p = <<a[1], a[2]>> THEN a[3] ELSE lastSet[p]]
        /\ held' = [held EXCEPT ![t] = Idle]
        /\ lastOp' = Op("setOrgStatusForClientFE", t, a)
        /\ ret' = None
        /\ UNCHANGED <<lsCurrentOrgId, lsActiveRole, ssMockRole, ssOrgSeeded, budgetVars,
                       repoVars, pageVars, received>>
        /\ pending' = Posted(t, {})

\* what each tab submits: a transaction and an override of its own
RaceTx(t) == IF t = "A" THEN <<FULL_DASH_ID, "Clothing", "Socks", Tenths(20), "">>
             ELSE <<PARTIAL_DASH_ID, "Hygiene", "Shampoo", Tenths(5), "">>
RaceOverride(t) == IF t = "A" THEN <<FULL_DASH_ID, "org1", "revoked">>
                   ELSE <<PARTIAL_DASH_ID, "org1", "approved">>

AddReadsStep       == \E t \in Tabs, now \in clock..(clock + 1) :
                         addTransactionFE_reads(t, RaceTx(t), now)
AddWritesStep      == \E t \in Tabs : addTransactionFE_writes(t)
OverrideReadsStep  == \E t \in Tabs :
                         setOrgStatusForClientFE_reads(t, RaceOverride(t)[1], RaceOverride(t)[2],
                                                       RaceOverride(t)[3])
OverrideWritesStep == \E t \in Tabs : setOrgStatusForClientFE_writes(t)

NextRace == AddReadsStep \/ AddWritesStep \/ OverrideReadsStep \/ OverrideWritesStep

SpecRace == Init /\ [][NextRace]_vars

(***************************************************************************)
(* The approval in steps.  setTransactionStatusFE reads the transactions,  *)
(* writes them, and for 'Approved' calls applyTransactionToBudgetFE, which *)
(* reads the budget and writes it.  Between any two of these the other tab *)
(* may run, and the tab may be closed.  A single setItem may be rejected   *)
(* (the quota depends on the size of what is written): ok says it is not.  *)
(***************************************************************************)
\* setTransactionStatusFE(txId, status) in tab t up to the return for an
\* unknown id
setTransactionStatusFE_reads(t, txId, status) ==
    LET all == readTransactions(t)
        idx == FindTx(all, txId)
    IN  /\ held[t] = Idle
        /\ statusCalls < MaxStatusCalls
        /\ statusCalls' = statusCalls + 1
        /\ lsTransactions' = TxAfterRead(t)
        /\ held' = [held EXCEPT ![t] =
                      IF idx = 0 THEN Idle
                      ELSE [op |-> "setTransactionStatusFE", all |-> all, idx |-> idx,
                            status |-> status, own |-> TxSeeds]]
        /\ lastOp' = Op("readTransactions", t, <<txId, status>>)
        /\ ret' = None
        /\ UNCHANGED <<lsBudget, DEMO_TRANSACTIONS, DEFAULT_BUDGET_BY_CLIENT, clock,
                       approveCount, accessVars, repoVars, pageVars, silent>>

setTransactionStatusFE_writes_orThrows(t, ok) ==
    LET h    == held[t]
        prev == h.all[h.idx]
        all2 == [h.all EXCEPT ![h.idx] = WithStatus(prev, h.status)]
    IN  /\ held[t] # Idle /\ held[t].op = "setTransactionStatusFE"
        /\ lsTransactions' = IF ok THEN setItem(lsTransactions, Some(all2)) ELSE lsTransactions
        /\ DEMO_TRANSACTIONS' = IF h.own THEN [DEMO_TRANSACTIONS EXCEPT ![t] = all2]
                                ELSE DEMO_TRANSACTIONS
        /\ approveCount' = IF h.status = "Approved"
                           THEN [approveCount EXCEPT ![h.idx] = @ + 1]
                           ELSE approveCount
        /\ held' = [held EXCEPT ![t] =
                      IF AppliesToBudget(prev, h.status) /\ ok
                      THEN [op |-> "applyTransactionToBudgetFE", tx |-> prev]
                      ELSE Idle]
        /\ lastOp' = Op("writeTransactions", t, <<prev.id, h.status, ok>>)
        /\ ret' = IF ok THEN None ELSE Thrown
        /\ UNCHANGED <<lsBudget, DEFAULT_BUDGET_BY_CLIENT, clock, statusCalls, accessVars,
                       repoVars, pageVars, silent>>

\* all[idx] = { ...prev, status }; writeTransactions(all); for 'Approved' the
\* call of applyTransactionToBudgetFE is what is left
setTransactionStatusFE_writes(t, ok) ==
    LET h    == held[t]
        prev == h.all[h.idx]
        all2 == [h.all EXCEPT ![h.idx] = WithStatus(prev, h.status)]
    IN  /\ held[t] # Idle /\ held[t].op = "setTransactionStatusFE"
        /\ lsTransactions' = IF ok THEN setItem(lsTransactions, Some(all2)) ELSE lsTransactions
        /\ DEMO_TRANSACTIONS' = IF h.own THEN [DEMO_TRANSACTIONS EXCEPT ![t] = all2]
                                ELSE DEMO_TRANSACTIONS
        /\ approveCount' = IF h.status = "Approved"
                           THEN [approveCount EXCEPT ![h.idx] = @ + 1]
                           ELSE approveCount
        /\ held' = [held EXCEPT ![t] =
                      IF AppliesToBudget(prev, h.status)
                      THEN [op |-> "applyTransactionToBudgetFE", tx |-> prev]
                      ELSE Idle]
        /\ lastOp' = Op("writeTransactions", t, <<prev.id, h.status, ok>>)
        /\ ret' = None
        /\ UNCHANGED <<lsBudget, DEFAULT_BUDGET_BY_CLIENT, clock, statusCalls, accessVars,
                       repoVars, pageVars, silent>>

\* applyTransactionToBudgetFE in tab t up to and including readBudgetMap()
applyTransactionToBudgetFE_reads(t) ==
    /\ held[t] # Idle /\ held[t].op = "applyTransactionToBudgetFE"
    /\ ~BudgetNull
    /\ lsBudget' = BudgetAfterRead(t)
    /\ held' = [held EXCEPT ![t] = [op |-> "writeBudgetMap", tx |-> held[t].tx,
                                    m |-> readBudgetMap(t), own |-> BudgetSeeds]]
    /\ lastOp' = Op("readBudgetMap", t, <<held[t].tx.id>>)
    /\ ret' = None
    /\ UNCHANGED <<lsTransactions, DEMO_TRANSACTIONS, DEFAULT_BUDGET_BY_CLIENT, clock,
                   approveCount, statusCalls, accessVars, repoVars, pageVars, received>>
    /\ pending' = Posted(t, {})

\* the rest of applyTransactionToBudgetFE in tab t (the row update reaches the
\* rows of DEFAULT_BUDGET_BY_CLIENT when the read seeded), then the event
applyTransactionToBudgetFE_writes(t, ok) ==
    LET h  == held[t]
        tx == h.tx
    IN  /\ held[t] # Idle /\ held[t].op = "writeBudgetMap"
        /\ lsBudget' = IF ok
                       THEN setItem(lsBudget, Some(AppliedTo(h.m, tx.clientId, tx.category,
                                                             tx.item, Num(tx.amount))))
                       ELSE lsBudget
        /\ DEFAULT_BUDGET_BY_CLIENT' =
              IF h.own /\ tx.clientId \in DOMAIN DEFAULT_BUDGET_BY_CLIENT[t]
              THEN [DEFAULT_BUDGET_BY_CLIENT EXCEPT ![t][tx.clientId] =
                       ApplyToRows(@, tx.category, tx.item, Num(tx.amount))]
              ELSE DEFAULT_BUDGET_BY_CLIENT
        /\ held' = [held EXCEPT ![t] = Idle]
        /\ lastOp' = Op("setTransactionStatusFE", t, <<tx.id, "Approved", ok>>)
        /\ ret' = None
        /\ received' = emitBudgetChanged(t, "txn-approved", lsTransactions)
        /\ UNCHANGED <<lsTransactions, DEMO_TRANSACTIONS, clock, approveCount, statusCalls,
                       accessVars, repoVars, pageVars>>
        /\ pending' = Posted(t, {})

\* tab t is closed or crashes in the middle of a call and is opened again:
\* what the call had in hand is gone, the module is loaded anew, the store
\* is as it was
crash(t) ==
    /\ held[t] # Idle
    /\ held' = [held EXCEPT ![t] = Idle]
    /\ DEMO_TRANSACTIONS' = [DEMO_TRANSACTIONS EXCEPT ![t] = DEMO_TRANSACTIONS_0]
    /\ DEFAULT_BUDGET_BY_CLIENT' =
          [DEFAULT_BUDGET_BY_CLIENT EXCEPT ![t] = DEFAULT_BUDGET_BY_CLIENT_0]
    /\ lastOp' = Op("crash", t, <<>>)
    /\ ret' = None
    /\ UNCHANGED <<lsTransactions, lsBudget, clock, approveCount, statusCalls, accessVars,
                   repoVars, pageVars, silent>>

ApprovedIds == {TxId(2), TxId(3)}

StatusReadsStep  == \E t \in OneTab, id \in ApprovedIds :
                       setTransactionStatusFE_reads(t, id, "Approved")
StatusWritesStep == \E t \in OneTab, ok \in BOOLEAN : setTransactionStatusFE_writes(t, ok)
BudgetReadsStep  == \E t \in OneTab : applyTransactionToBudgetFE_reads(t)
BudgetWritesStep == \E t \in OneTab, ok \in BOOLEAN : applyTransactionToBudgetFE_writes(t, ok)
CrashStep        == \E t \in Tabs : crash(t)
OtherAddReadsStep  == \E t \in Tabs \ OneTab :
                         addTransactionFE_reads(t, RaceTx(t), clock + 1)
OtherAddWritesStep == \E t \in Tabs \ OneTab : addTransactionFE_writes(t)

NextCrash == StatusReadsStep \/ StatusWritesStep \/ BudgetReadsStep \/ BudgetWritesStep
             \/ CrashStep \/ OtherAddReadsStep \/ OtherAddWritesStep

SpecCrash == Init /\ [][NextCrash]_vars

(***************************************************************************)
(* The hydration runs: two tabs of a profile that holds no task list or a  *)
(* list a page saved, over a store that accepts or rejects every write,    *)
(* read the tasks, save lists and add care items.                          *)
(***************************************************************************)
InitHydrate ==
    /\ rejects \in BOOLEAN
    /\ lsTasks \in {None} \cup { Some(L) : L \in TaskInputs }
    /\ lsTransactions = None
    /\ lsBudget = None
    /\ lsOrgStatus = None
    /\ lsCurrentOrgId = None
    /\ lsActiveRole = None
    /\ ssMockRole = [t \in Tabs |-> None]
    /\ ssOrgSeeded = [t \in Tabs |-> None]
    /\ DEMO_TRANSACTIONS = [t \in Tabs |-> DEMO_TRANSACTIONS_0]
    /\ DEFAULT_BUDGET_BY_CLIENT = [t \in Tabs |-> DEFAULT_BUDGET_BY_CLIENT_0]
    /\ clock = FirstNow
    /\ approveCount = [i \in 1..Len(DEMO_TRANSACTIONS_0) |-> 0]
    /\ statusCalls = 0
    /\ lsRequests = None
    /\ lsTaskCatalog = None
    /\ lsAnnualBudget = None
    /\ lsActiveClientId = None
    /\ lsCurrentClientName = None
    /\ DEMO_REQUESTS = [t \in Tabs |-> DEMO_REQUESTS_0]
    /\ NothingMounted
    /\ lastSet = <<>>
    /\ lastOp = Op("init", "", <<>>)
    /\ ret = None

HydrateReadStep == \E t \in Tabs : getTasksFE(t)
HydrateSaveStep == \E t \in Tabs, L \in TaskInputs : saveTasksFE(t, L)
HydrateAddStep  == \E t \in Tabs, now \in clock..(clock + 1) :
                      onCreate(t, "Buy Socks", "Clothing", now)

NextHydrate == HydrateReadStep \/ HydrateSaveStep \/ HydrateAddStep

SpecHydrate == InitHydrate /\ [][NextHydrate]_vars

(***************************************************************************)
(* The request log runs: two tabs log in, open the request log page of a   *)
(* client and change the status of the rows they show; the 'requests' item *)
(* can be replaced from outside the application by the JSON text null      *)
(* (the store is shared by everything that runs on the origin).            *)
(***************************************************************************)
\* what the request log page and setRequestStatusFE leave alone
logFrame == <<lsTasks, lsTaskCatalog, lsAnnualBudget, lsActiveClientId,
              lsCurrentClientName, budgetVars, accessVars, silent, rejects, subscribers,
              openPage, visible, shownTasks, shownClients, shownBudget, fetched, reqLog,
              held>>

\* the id and the status of a row; normalize spreads the record read
\* ({ ...raw, detail, reason }), so both are the stored ones
Shown(r) == [id |-> r.id, status |-> r.status]

\* prev.map((r) => (r.id !== reqId ? r : { ...r, status }))
RowsWithStatus(prev, reqId, status) ==
    [n \in 1..Len(prev) |->
        IF prev[n].id # reqId THEN prev[n] ELSE [prev[n] EXCEPT !.status = status]]

\* the load effect of the request log page in tab t for the active client:
\* setRequests(normalize(raw)), setRequests([]) when the read is rejected
loadRequests(t, clientId) ==
    LET raw == SortDesc(OfClient(readRequestsAll(t), clientId))
    IN  /\ lastOp' = Op("loadRequests", t, <<clientId>>)
        /\ ret' = None
        /\ lsRequests' = RequestsAfterRead(t)
        /\ requests' = [requests EXCEPT ![t] =
                           IF RequestsNull THEN <<>>
                           ELSE [n \in 1..Len(raw) |-> Shown(raw[n])]]
        /\ UNCHANGED <<DEMO_REQUESTS, logFrame>>

\* setRequestStatusFE(id, status) in tab t: the list after all[idx] = ...,
\* the list read when no record has the id
StatusSet(all, id, status) ==
    IF FindTx(all, id) > 0
    THEN [all EXCEPT ![FindTx(all, id)] = [@ EXCEPT !.status = status]]
    ELSE all

\* the stored item after setRequestStatusFE: the seed written by the read,
\* then the list written back when a record has the id
StoredAfterStatus(t, id, status) ==
    IF FindTx(readRequestsAll(t), id) > 0
    THEN setItem(RequestsAfterRead(t), Some(StatusSet(readRequestsAll(t), id, status)))
    ELSE RequestsAfterRead(t)

\* handleStatusChange(reqId, next) in tab t: nothing for a viewer who is not
\* management; else the optimistic change of the row, setRequestStatusFE
\* (findIndex on null is a TypeError, the promise is rejected), and on a
\* rejection the row is set to 'Pending'.  The third argument recorded is
\* whether setRequestStatusFE was rejected.
handleStatusChange(t, reqId, next) ==
    LET isManagement == getViewerRoleFE(t) = "management"
        optimistic   == RowsWithStatus(requests[t], reqId, next)
        failed       == isManagement /\ RequestsNull
    IN  /\ lastOp' = Op("handleStatusChange", t, <<reqId, next, failed>>)
        /\ ret' = None
        /\ IF ~isManagement
           THEN UNCHANGED <<requests, lsRequests, DEMO_REQUESTS>>
           ELSE IF RequestsNull
           THEN /\ requests' = [requests EXCEPT ![t] =
                                   RowsWithStatus(optimistic, reqId, "Pending")]
                /\ UNCHANGED <<lsRequests, DEMO_REQUESTS>>
           ELSE /\ requests' = [requests EXCEPT ![t] = optimistic]
                /\ lsRequests' = StoredAfterStatus(t, reqId, next)
                /\ DEMO_REQUESTS' =
                      IF RequestsSeeds
                      THEN [DEMO_REQUESTS EXCEPT ![t] = StatusSet(@, reqId, next)]
                      ELSE DEMO_REQUESTS
        /\ UNCHANGED logFrame

\* the 'requests' item is replaced from outside by the text null
requestsReplaced ==
    /\ lsRequests \notin {None, JsonNull}
    /\ lsRequests' = JsonNull
    /\ lastOp' = Op("requestsReplaced", "", <<>>)
    /\ ret' = None
    /\ UNCHANGED <<requests, DEMO_REQUESTS, logFrame>>

LogLoginStep    == \E t \in Tabs, r \in {"management", "carer"} : setViewerRoleFE(t, r)
LogLoadStep     == \E t \in Tabs, c \in {FULL_DASH_ID} : loadRequests(t, c)
LogChangeStep   == \E t \in Tabs, next \in TxStatus :
                      \E n \in 1..Len(requests[t]) :
                         handleStatusChange(t, requests[t][n].id, next)
LogReplacedStep == requestsReplaced

NextLog == LogLoginStep \/ LogLoadStep \/ LogChangeStep \/ LogReplacedStep

SpecLog == Init /\ [][NextLog]_vars

(***************************************************************************)
(* Properties of the reconciliation runs (Spec)                            *)
(***************************************************************************)
TheTab == CHOOSE t \in OneTab : TRUE

StoredTx   == readTransactions(TheTab)      \* what a read of the transactions returns
BudgetView == readBudgetMap(TheTab)         \* what a read of the budget returns

Targets(tx, clientId, category, item) ==
    tx.clientId = clientId /\ tx.category = category /\ tx.item = item

\* the spent of the row of (clientId, category, item) in m, 0 when there is no such row
SpentAt(m, clientId, category, item) ==
    LET rows == IF clientId \in DOMAIN m THEN m[clientId] ELSE <<>>
        hits == {k \in 1..Len(rows) : rows[k].category = category /\ rows[k].item = item}
    IN  IF hits = {} THEN 0
        ELSE rows[CHOOSE k \in hits : \A j \in hits : k <= j].spent

HasRow(m, clientId, category, item) ==
    /\ clientId \in DOMAIN m
    /\ \E k \in 1..Len(m[clientId]) :
          m[clientId][k].category = category /\ m[clientId][k].item = item

SpentOfTx(m, tx) == SpentAt(m, tx.clientId, tx.category, tx.item)

SeedSpent(clientId, category, item) ==
    SpentAt(DEFAULT_BUDGET_BY_CLIENT_0, clientId, category, item)

EverApproved(i) ==
    \/ approveCount[i] > 0
    \/ i <= Len(DEMO_TRANSACTIONS_0) /\ DEMO_TRANSACTIONS_0[i].status = "Approved"

\* the sum over the positions 1..n of all of weight(i) * amount, for the
\* transactions that target (clientId, category, item)
RECURSIVE WeightedSum(_, _, _, _, _, _)
WeightedSum(all, n, weight(_), clientId, category, item) ==
    IF n = 0 THEN 0
    ELSE WeightedSum(all, n - 1, weight, clientId, category, item)
         + (IF Targets(all[n], clientId, category, item)
            THEN weight(n) * Num(all[n].amount) ELSE 0)

OnceIfEverApproved(i) == IF EverApproved(i) THEN 1 ELSE 0
TimesApproved(i)      == approveCount[i]

\* C1 as stated: every budget row's spent is the sum of the amounts of the
\* transactions that target the row and have ever been Approved.
C1_SpentIsSumOfApproved ==
    \A c \in DOMAIN BudgetView : \A k \in 1..Len(BudgetView[c]) :
        BudgetView[c][k].spent =
            WeightedSum(StoredTx, Len(StoredTx), OnceIfEverApproved,
                        c, BudgetView[c][k].category, BudgetView[c][k].item)

\* C1 (amended): every budget row's spent is the spent the demo seed gives the
\* row (0 for a row reconciliation created) plus, for every
\* setTransactionStatusFE(id, 'Approved') call made so far, the amount of the
\* transaction the call found; every transaction so approved has a row.
C1_SpentIsSeedPlusApprovalCalls ==
    /\ \A c \in DOMAIN BudgetView : \A k \in 1..Len(BudgetView[c]) :
          BudgetView[c][k].spent =
              SeedSpent(c, BudgetView[c][k].category, BudgetView[c][k].item)
              + WeightedSum(StoredTx, Len(StoredTx), TimesApproved,
                            c, BudgetView[c][k].category, BudgetView[c][k].item)
    /\ \A i \in 1..Len(StoredTx) :
          approveCount[i] > 0 =>
              HasRow(BudgetView, StoredTx[i].clientId, StoredTx[i].category, StoredTx[i].item)

\* an added transaction with a seeded row and the demo transaction t3 without
\* one were each approved by one call: the first row holds its seed plus the
\* amount, the second row was created with the amount
C1_Witness ==
    \E i \in 1..Len(StoredTx) :
        /\ i > Len(DEMO_TRANSACTIONS_0)
        /\ approveCount[i] = 1 /\ approveCount[3] = 1
        /\ StoredTx[i].amount # 0
        /\ SeedSpent(StoredTx[i].clientId, StoredTx[i].category, StoredTx[i].item) # 0
        /\ SpentOfTx(BudgetView, StoredTx[i])
             = SeedSpent(StoredTx[i].clientId, StoredTx[i].category, StoredTx[i].item)
               + StoredTx[i].amount
        /\ SpentOfTx(BudgetView, StoredTx[3]) = StoredTx[3].amount

\* the step is a setTransactionStatusFE(.., 'Approved') call that found position i
ApprovesAt(i) ==
    /\ i \in 1..Len(StoredTx)
    /\ lastOp'.op = "setTransactionStatusFE"
    /\ approveCount'[i] = approveCount[i] + 1

\* C2: the call that sets a not yet approved transaction T to Approved raises
\* the spent of T's row by exactly T.amount; a status change of another
\* transaction changes the spent of T's row by that transaction's own amount
\* when it is an approval for the same row, and not at all otherwise.
C2_ApprovalAddsAmount ==
    [][\A i \in 1..Len(StoredTx) :
          /\ (ApprovesAt(i) /\ approveCount[i] = 0) =>
                SpentOfTx(BudgetView', StoredTx[i])
                    = SpentOfTx(BudgetView, StoredTx[i]) + Num(StoredTx[i].amount)
          /\ \A j \in 1..Len(StoredTx) :
                (/\ j # i
                 /\ approveCount[i] = 1
                 /\ lastOp'.op = "setTransactionStatusFE"
                 /\ approveCount'[i] = approveCount[i]
                 /\ StoredTx'[j].status # StoredTx[j].status \/ ApprovesAt(j)) =>
                    SpentOfTx(BudgetView', StoredTx[i])
                        = SpentOfTx(BudgetView, StoredTx[i])
                          + (IF ApprovesAt(j) /\ Targets(StoredTx[j], StoredTx[i].clientId,
                                                         StoredTx[i].category, StoredTx[i].item)
                             THEN Num(StoredTx[j].amount) ELSE 0)
      ]_vars

\* Mouthwash (t3, no seeded row) was approved once and then another
\* transaction was rejected: the new row still holds exactly t3's amount
C2_Witness ==
    /\ approveCount[3] = 1
    /\ lastOp.op = "setTransactionStatusFE" /\ lastOp.arg[1] # StoredTx[3].id
    /\ lastOp.arg[2] = "Rejected"
    /\ SpentOfTx(BudgetView, StoredTx[3]) = StoredTx[3].amount

\* C3: a setTransactionStatusFE(id, 'Approved') call on a transaction whose
\* stored status is already Approved adds the amount to the row again.
C3_ReapprovalAddsAgain ==
    [][\A i \in 1..Len(StoredTx) :
          (ApprovesAt(i) /\ StoredTx[i].status = "Approved") =>
              /\ SpentOfTx(BudgetView', StoredTx[i])
                    = SpentOfTx(BudgetView, StoredTx[i]) + Num(StoredTx[i].amount)
              /\ StoredTx'[i].status = "Approved"
      ]_vars

\* a pending transaction was approved twice in a row: its row holds the amount twice
C3_Witness ==
    \E i \in 1..Len(StoredTx) :
        /\ approveCount[i] = 2
        /\ StoredTx[i].amount # 0
        /\ statusCalls = 2
        /\ SpentOfTx(BudgetView, StoredTx[i])
             = SeedSpent(StoredTx[i].clientId, StoredTx[i].category, StoredTx[i].item)
               + 2 * StoredTx[i].amount

\* the first position of all that holds id, 0 when there is none
FirstWithId(all, id) ==
    LET hits == {k \in 1..Len(all) : all[k].id = id}
    IN  IF hits = {} THEN 0 ELSE CHOOSE k \in hits : \A j \in hits : k <= j

\* C4: setTransactionStatusFE(id, s) on an existing id stores s whatever the
\* previous status was, and for s = Pending or Rejected the stored budget item
\* is left as it was.
C4_AnyTransitionAccepted ==
    [][\A id \in {StoredTx[k].id : k \in 1..Len(StoredTx)} : \A s \in TxStatus :
          (lastOp'.op = "setTransactionStatusFE" /\ lastOp'.arg = <<id, s>>) =>
              /\ Len(StoredTx') = Len(StoredTx)
              /\ StoredTx'[FirstWithId(StoredTx, id)].status = s
              /\ s # "Approved" => lsBudget' = lsBudget
      ]_vars

\* a transaction that was approved by a call now is Rejected, and the budget
\* still holds its amount
C4_Witness ==
    \E i \in 1..Len(StoredTx) :
        /\ approveCount[i] = 1
        /\ lastOp.op = "setTransactionStatusFE"
        /\ lastOp.arg = <<StoredTx[i].id, "Rejected">>
        /\ StoredTx[i].status = "Rejected"
        /\ StoredTx[i].amount # 0
        /\ SpentOfTx(BudgetView, StoredTx[i])
             = SeedSpent(StoredTx[i].clientId, StoredTx[i].category, StoredTx[i].item)
               + StoredTx[i].amount

\* C5: an approval whose (category, item) equals no row of the client exactly
\* appends the one row {item, category, allocated: 0, spent: amount} and leaves
\* the rows there were as they are; with an exactly equal row no row is added;
\* the rows of the other clients stay.
C5_NewRowOnlyWithoutExactMatch ==
    [][\A i \in 1..Len(StoredTx) :
          ApprovesAt(i) =>
              LET tx     == StoredTx[i]
                  before == IF tx.clientId \in DOMAIN BudgetView
                            THEN BudgetView[tx.clientId] ELSE <<>>
                  after  == BudgetView'[tx.clientId]
              IN  /\ IF HasRow(BudgetView, tx.clientId, tx.category, tx.item)
                     THEN Len(after) = Len(before)
                     ELSE after = Append(before, [item |-> tx.item, category |-> tx.category,
                                                  allocated |-> 0, spent |-> Num(tx.amount)])
                  /\ \A c \in DOMAIN BudgetView :
                        c # tx.clientId => BudgetView'[c] = BudgetView[c]
      ]_vars

\* the approval of ('clothing', 'Socks') made a row of its own next to the
\* seeded ('Clothing', 'Socks') row, which kept its spent
C5_Witness ==
    /\ HasRow(BudgetView, FULL_DASH_ID, "clothing", "Socks")
    /\ SpentAt(BudgetView, FULL_DASH_ID, "clothing", "Socks") = Tenths(-2)
    /\ SpentAt(BudgetView, FULL_DASH_ID, "Clothing", "Socks") = Tenths(36)
    /\ Len(BudgetView[FULL_DASH_ID]) = Len(DEFAULT_BUDGET_BY_CLIENT_0[FULL_DASH_ID]) + 1

(***************************************************************************)
(* Properties of the access runs (SpecAccess)                              *)
(***************************************************************************)
ReferenceClients == {FULL_DASH_ID, PARTIAL_DASH_ID, CATHY_ID}
OptStatus        == {None} \cup {Some(x) : x \in OrgStatusFE}

\* the stored override of (clientId, orgId), None when the pair has none
Override(clientId, orgId) ==
    IF lsOrgStatus # None /\ clientId \in DOMAIN lsOrgStatus[1]
       /\ orgId \in DOMAIN lsOrgStatus[1][clientId]
    THEN Some(lsOrgStatus[1][clientId][orgId]) ELSE None

CurrentOrg == IF lsCurrentOrgId = None THEN "org1" ELSE lsCurrentOrgId[1]

\* override, else the client's own orgAccess, else 'approved'
Cascade(override, orgAccess) ==
    CASE override # None  -> override[1]
      [] orgAccess # None -> orgAccess[1]
      [] OTHER            -> "approved"

\* C6: the client list resolves the access of each client to the stored
\* override of (client, current organisation) if there is one, else to the
\* client's orgAccess if it is set, else to 'approved'.
C6_ResolveAccessCascade ==
    /\ lastOp.op = "loadClients" =>
          \A i \in 1..Len(getClientsFE) :
              ret[1][i].orgAccess =
                  Cascade(Override(getClientsFE[i]._id, CurrentOrg), getClientsFE[i].orgAccess)
    /\ \A o \in OptStatus, a \in OptStatus :
          resolveAccess(o, Client("c", "C", a)) = Cascade(o, a)

\* the list was loaded while mock1 had the override 'revoked' and mock2 had no
\* override for the current organisation: the override wins for mock1, the
\* client's orgAccess is used for mock2
C6_Witness ==
    /\ lastOp.op = "loadClients"
    /\ Override(FULL_DASH_ID, CurrentOrg) = Some("revoked")
    /\ ret[1][1].orgAccess = "revoked"
    /\ Override(PARTIAL_DASH_ID, CurrentOrg) = None
    /\ ret[1][2].orgAccess = "pending"

\* C7: the access the add-transaction and transaction-history pages compute
\* for a client equals the cascade of the client list ('approved' when the
\* pair has no override and the client no orgAccess).
C7_TxPagesUseCascade ==
    lastOp.op = "loadClientsWithOrgAccess" =>
        \A i \in 1..Len(getClientsFE) :
            ret[1][i].orgAccess =
                Cascade(Override(getClientsFE[i]._id, CurrentOrg), getClientsFE[i].orgAccess)

SeedingOps == {"seedOrgStatusDefaultsFE", "selectOrg", "loadClients",
               "loadClientsWithOrgAccess"}

\* the last step was a seedOrgStatusDefaultsFE() call of tab t that returned at
\* once (how = "skipped") or went through the three ensure calls (how = "ran")
Seeded(op, t, how) ==
    op.op = "seedOrgStatusDefaultsFE" /\ op.tab = t /\ op.arg = <<how>>

\* C8: a call of seedOrgStatusDefaultsFE (direct, or from a page load or the
\* organisation menu) leaves the override of every pair that has one as it is.
C8_SeedKeepsOverrides ==
    [][lastOp'.op \in SeedingOps =>
          \A c \in ReferenceClients \cup {OtherClient} : \A o \in MOCK_ORGS :
              Override(c, o) # None => Override(c, o)' = Override(c, o)
      ]_vars

\* a seed call that did write found mock1 'revoked' for the current
\* organisation and left it, next to the default it wrote for mock2
C8_Witness ==
    \E t \in Tabs :
        /\ Seeded(lastOp, t, "ran")
        /\ Override(FULL_DASH_ID, CurrentOrg) = Some("revoked")
        /\ Override(PARTIAL_DASH_ID, CurrentOrg) = Some("pending")
        /\ Override(CATHY_ID, CurrentOrg) = Some("revoked")

\* C9: in every reachable store state and every tab, seeding twice leaves the
\* override item seeding once leaves; a seed call directly after a seed call
\* of the same tab changes nothing; and a seed call made while the tab's flag
\* is '1' writes nothing.
C9_SeedIdempotent ==
    /\ [](\A t \in Tabs :
            LET once  == SeedEffect(lsOrgStatus, ssOrgSeeded[t], CurrentOrg)
                twice == SeedEffect(once.status, once.flag, CurrentOrg)
            IN  twice.status = once.status /\ once.flag = Some("1"))
    /\ [][\A t \in Tabs :
            /\ (/\ lastOp.op = "seedOrgStatusDefaultsFE" /\ lastOp.tab = t
                /\ lastOp'.op = "seedOrgStatusDefaultsFE" /\ lastOp'.tab = t) =>
                   lsOrgStatus' = lsOrgStatus /\ ssOrgSeeded' = ssOrgSeeded
            /\ (/\ lastOp'.op = "seedOrgStatusDefaultsFE" /\ lastOp'.tab = t
                /\ ssOrgSeeded[t] = Some("1")) =>
                   lsOrgStatus' = lsOrgStatus /\ ssOrgSeeded' = ssOrgSeeded
         ]_vars

\* a second seed call of a tab returned at once although mock1 has no override
\* for the current organisation
C9_Witness ==
    \E t \in Tabs :
        /\ Seeded(lastOp, t, "skipped")
        /\ ssOrgSeeded[t] = Some("1")
        /\ Override(FULL_DASH_ID, CurrentOrg) = None

ThreeDefaults(orgId) ==
    (FULL_DASH_ID :> (orgId :> "approved"))
    @@ (PARTIAL_DASH_ID :> (orgId :> "pending"))
    @@ (CATHY_ID :> (orgId :> "revoked"))

DefaultOf(clientId) ==
    CASE clientId = FULL_DASH_ID    -> "approved"
      [] clientId = PARTIAL_DASH_ID -> "pending"
      [] clientId = CATHY_ID        -> "revoked"

C11_OverrideIsLastSet ==
    /\ [](/\ \A p \in DOMAIN lastSet : Override(p[1], p[2]) = Some(lastSet[p])
          /\ (lastOp.op = "getOrgStatusForClientFE" /\ <<lastOp.arg[1], lastOp.arg[2]>> \in DOMAIN lastSet)
                => ret = Some(lastSet[<<lastOp.arg[1], lastOp.arg[2]>>]))
    /\ [][\A in \in OverrideInputs :
             (lastOp'.op = "setOrgStatusForClientFE" /\ lastOp'.arg = <<in[1], in[2], in[3]>>)
                 => Override(in[1], in[2])' = Some(in[3])
         ]_vars

\* mock1 was set to 'revoked' for the current organisation, the defaults were
\* seeded afterwards (mock2 holds its default), and a read returns 'revoked'
C11_Witness ==
    /\ lastOp.op = "getOrgStatusForClientFE"
    /\ lastOp.arg = <<FULL_DASH_ID, CurrentOrg>>
    /\ <<FULL_DASH_ID, CurrentOrg>> \in DOMAIN lastSet
    /\ lastSet[<<FULL_DASH_ID, CurrentOrg>>] = "revoked"
    /\ Override(PARTIAL_DASH_ID, CurrentOrg) = Some("pending")
    /\ ret = Some("revoked")

(***************************************************************************)
(* Properties of the read runs (SpecRead)                                  *)
(***************************************************************************)
AbsentOrEmpty(item) == item = None \/ item = Some(<<>>)
HoldsCollection(item) == Len(item) = 1 /\ item[1] # <<>>

ReadOps == {"getTasksFE", "getTransactionsFE", "getBudgetRowsFE", "getRequestsByClientFE",
            "getTaskCatalogFE", "getAnnualBudgetFE", "getOrgStatusForClientFE"}

\* C12: for tasks, transactions, budget, requests and task catalog, a read that
\* finds the item missing or holding an empty collection stores the demo seed
\* and returns it (the part of it the read asks for), and a read that finds a
\* collection returns that collection and stores no seed.
C12_ReadSeedsWhenAbsentOrEmpty ==
    [][/\ lastOp'.op = "getTasksFE" =>
            /\ AbsentOrEmpty(lsTasks) =>
                  lsTasks' = Some(DEMO_TASKS) /\ ret' = Some(DEMO_TASKS)
            /\ HoldsCollection(lsTasks) =>
                  lsTasks' = Some(hydrated(lsTasks[1])) /\ ret' = lsTasks'
       /\ lastOp'.op = "getTransactionsFE" =>
            /\ AbsentOrEmpty(lsTransactions) =>
                  /\ lsTransactions' = Some(DEMO_TRANSACTIONS_0)
                  /\ ret' = Some(OfClient(DEMO_TRANSACTIONS_0, lastOp'.arg[1]))
            /\ HoldsCollection(lsTransactions) =>
                  /\ lsTransactions' = lsTransactions
                  /\ ret' = Some(OfClient(lsTransactions[1], lastOp'.arg[1]))
       /\ lastOp'.op = "getBudgetRowsFE" =>
            /\ AbsentOrEmpty(lsBudget) =>
                  /\ lsBudget' = Some(DEFAULT_BUDGET_BY_CLIENT_0)
                  /\ ret' = Some(RowsOf(DEFAULT_BUDGET_BY_CLIENT_0, lastOp'.arg[1]))
            /\ HoldsCollection(lsBudget) =>
                  /\ lsBudget' = lsBudget
                  /\ ret' = Some(RowsOf(lsBudget[1], lastOp'.arg[1]))
       /\ lastOp'.op = "getRequestsByClientFE" =>
            /\ AbsentOrEmpty(lsRequests) =>
                  /\ lsRequests' = Some(DEMO_REQUESTS_0)
                  /\ ret' = Some(SortDesc(OfClient(DEMO_REQUESTS_0, lastOp'.arg[1])))
            /\ HoldsCollection(lsRequests) =>
                  /\ lsRequests' = lsRequests
                  /\ ret' = Some(SortDesc(OfClient(lsRequests[1], lastOp'.arg[1])))
       /\ lastOp'.op = "getTaskCatalogFE" =>
            /\ AbsentOrEmpty(lsTaskCatalog) =>
                  lsTaskCatalog' = Some(DEMO_TASK_CATALOG) /\ ret' = Some(DEMO_TASK_CATALOG)
            /\ HoldsCollection(lsTaskCatalog) =>
                  lsTaskCatalog' = lsTaskCatalog /\ ret' = lsTaskCatalog
      ]_vars

\* the defaults getTasksFE documents for a task read back from the store
Defaulted(p, n) ==
    [id        |-> IF p.id = None THEN Some(IndexText(n)) ELSE p.id,
     clientId  |-> IF p.clientId = None THEN Some(FULL_DASH_ID) ELSE p.clientId,
     title     |-> IF Len(p.title) = 1 THEN p.title ELSE Some(TaskTitle(n)),
     category  |-> IF p.category = None THEN Some("") ELSE p.category,
     frequency |-> IF p.frequency = None THEN Some("") ELSE p.frequency,
     lastDone  |-> IF p.lastDone # None THEN p.lastDone
                   ELSE IF p.nextDue # None THEN p.nextDue ELSE Some(""),
     nextDue   |-> IF p.nextDue = None THEN Some("") ELSE p.nextDue,
     status    |-> IF p.status = None THEN Some("Pending") ELSE p.status,
     comments  |-> IF p.comments = None THEN Some(<<>>) ELSE p.comments,
     files     |-> IF p.files = None THEN Some(<<>>) ELSE p.files]

WithDefaults(L) == [n \in 1..Len(L) |-> Defaulted(L[n], n)]

\* the step is getTasksFE() directly after saveTasksFE(L) in the same tab
GetAfterSave(L) ==
    /\ lastOp.op = "saveTasksFE" /\ lastOp.arg = L
    /\ lastOp'.op = "getTasksFE" /\ lastOp'.tab = lastOp.tab

\* C13 as stated: for every task list L, the empty list included, getTasksFE()
\* directly after saveTasksFE(L) returns L with the hydration defaults applied.
C13_SaveThenGetReturnsSaved ==
    [][\A L \in TaskInputs : GetAfterSave(L) => ret' = Some(WithDefaults(L))]_vars

\* C13 (amended): getTasksFE() directly after saveTasksFE(L) returns, and
\* stores, L with the hydration defaults applied when L is not empty, and the
\* demo tasks when L is empty.
C13_SaveThenGetReturnsSavedOrSeed ==
    [][\A L \in TaskInputs :
          GetAfterSave(L) =>
              /\ L # <<>> => ret' = Some(WithDefaults(L)) /\ lsTasks' = Some(WithDefaults(L))
              /\ L = <<>> => ret' = Some(DEMO_TASKS) /\ lsTasks' = Some(DEMO_TASKS)
      ]_vars

\* the list of the task without id, title and lastDone was saved and read back:
\* what is returned and stored differs from what was saved by the defaults
C13_Witness ==
    /\ lastOp.op = "getTasksFE"
    /\ ret = Some(WithDefaults(<<PartialTask>>))
    /\ ret[1][1].lastDone = Some("2025-11-01")
    /\ ret[1][1].title = Some("Task 1")
    /\ lsTasks = ret

\* C14: whatever text the items hold (none, text that is not JSON, 'null', an
\* empty collection), no read throws or rejects, and none returns null in
\* place of a collection.
C14_ReadsNeverThrow ==
    lastOp.op \in ReadOps => ret # Thrown /\ ret # JsonNull

(***************************************************************************)
(* Properties of the quota runs (SpecQuota)                                *)
(***************************************************************************)
\* every item of the persistent store
persisted == <<lsTransactions, lsBudget, lsOrgStatus, lsCurrentOrgId, lsActiveRole,
               lsTasks, lsRequests, lsTaskCatalog, lsAnnualBudget, lsActiveClientId,
               lsCurrentClientName>>

\* C15: while the store rejects writes, every call of one of the nine
\* mutations returns normally (nothing thrown, no rejected promise) and
\* leaves every persisted item as it was.
C15_RejectedWriteIsSwallowed ==
    [][rejects => (ret' # Thrown /\ persisted' = persisted)]_vars

(***************************************************************************)
(* Properties of the backend runs (SpecBackend)                            *)
(***************************************************************************)
\* the call left a thrown error (a rejected promise) to its caller
Threw(r) == Len(r) = 3 /\ r[1] = "thrown"

\* the response the last call received
ResponseOf(op) == op.arg[Len(op.arg)]

\* C16: in backend mode every call of a repository function sends a
\* request, and when the response is not 2xx the call throws: none returns
\* an empty or null result, or does nothing, instead.
C16_BackendFailureIsThrown ==
    [][/\ fetched' # fetched
       /\ ~ResponseOf(lastOp').ok => Threw(ret')]_vars

(***************************************************************************)
(* Properties of the request log runs (SpecNormalize)                      *)
(***************************************************************************)
\* the text after the first marker of txt
RECURSIVE AfterMarker(_)
AfterMarker(txt) ==
    IF txt = <<>> THEN <<>>
    ELSE IF Head(txt) \in Markers THEN Tail(txt) ELSE AfterMarker(Tail(txt))

\* C17: after normalizeOne the detail of a record holds no "Reason:" marker
\* (either colon, any letter case), and when the detail read held one, the
\* text after it is in reason.
C17_NoMarkerLeftInDetail ==
    Len(reqLog) >= 2 =>
        /\ reqLog[2].detail # None => ~HasMarker(reqLog[2].detail[1])
        /\ (reqLog[1].detail # None /\ HasMarker(reqLog[1].detail[1]))
              => reqLog[2].reason = Some(trim(AfterMarker(reqLog[1].detail[1])))

\* C18: normalizeOne applied to its own result changes neither detail nor
\* reason.
C18_NormalizeIsIdempotent ==
    Len(reqLog) >= 3 =>
        /\ reqLog[3].detail = reqLog[2].detail
        /\ reqLog[3].reason = reqLog[2].reason

(***************************************************************************)
(* Properties of the bus runs (SpecBus)                                    *)
(***************************************************************************)
\* the step is a call of one of the three functions that changes a record:
\* an added transaction, the status of a stored transaction, an annual total
MutationStep ==
    \/ lastOp'.op \in {"addTransactionFE", "setAnnualBudgetFE"}
    \/ /\ lastOp'.op = "setTransactionStatusFE"
       /\ FindTx(readTransactions(lastOp'.tab), lastOp'.arg[1]) > 0

\* the item the step wrote
WrittenItem == IF lastOp'.op = "setAnnualBudgetFE" THEN lsAnnualBudget' ELSE lsTransactions'

\* C20: every mutation (an added transaction, a status set to any value, an
\* annual total) gives each listener subscribed in the tab exactly one
\* event, dispatched when the written item is in the store, and a listener
\* that is not subscribed is given nothing.
C20_OneEventPerMutation ==
    [][/\ MutationStep =>
            \A h \in subscribers[lastOp'.tab] :
                /\ received'[h].n = received[h].n + 1
                /\ received'[h].stored = WrittenItem
       /\ \A h \in SubIds :
            received[h].fn = "removed" => received'[h] = received[h]]_vars

(***************************************************************************)
(* Properties of the sync runs (SpecSync)                                  *)
(***************************************************************************)
\* what tab t displays is what the store holds
InSync(t) ==
    CASE openPage[t] = "schedule" ->
            lsTasks # None /\ shownTasks[t] = merged(lsTasks[1])
      [] openPage[t] = "clients" ->
            shownClients[t] = mappedClients(lsOrgStatus, getCurrentOrgIdFE)
      [] openPage[t] = "budget" ->
            shownBudget[t] = RowsOf(readBudgetMap(t), FULL_DASH_ID)
      [] OTHER -> TRUE

\* tab t is looked at and displays something else than the store holds
Stale(t) == visible[t] /\ ~InSync(t)

PairwiseDistinct(list) ==
    \A i, j \in 1..Len(list) :
        i # j /\ list[i].id # None => list[i].id # list[j].id

StoredList(item) == IF Len(item) = 1 THEN item[1] ELSE <<>>

\* C21: within a single tab, after any sequence of adds (ids made from a clock
\* that never goes back) and hydrating reads, the identifiers of the records
\* of each persisted collection are pairwise distinct.
C21_IdsPairwiseDistinct ==
    /\ PairwiseDistinct(StoredList(lsTransactions))
    /\ PairwiseDistinct(StoredList(lsRequests))
    /\ PairwiseDistinct(StoredList(lsTasks))

(***************************************************************************)
(* Properties of the role runs (SpecRole)                                  *)
(***************************************************************************)
\* the persistent role, 'family' when there is none
PersistentRole == IF lsActiveRole \in {Some(r) : r \in ViewerRole} THEN lsActiveRole[1]
                  ELSE "family"

\* tab t has called setViewerRoleFE and neither it nor clearViewerRoleFE since
LoggedIn(t) == ssMockRole[t] # None

\* C22: the viewer role is per tab.  A setViewerRoleFE(r) of a tab makes
\* getViewerRoleFE() of that tab return r; what a logged-in tab gets is not
\* changed by any call of another tab; a tab without a session role gets the
\* persistent role, and 'family' when there is none.
C22_RoleIsPerTab ==
    [][ /\ \A t \in Tabs :
              lastOp'.op = "setViewerRoleFE" /\ lastOp'.tab = t =>
                  getViewerRoleFE(t)' = lastOp'.arg[1]
        /\ \A t \in Tabs :
              LoggedIn(t) /\ lastOp'.tab # t => getViewerRoleFE(t)' = getViewerRoleFE(t)
        /\ \A t \in Tabs :
              ~LoggedIn(t)' => getViewerRoleFE(t)' = PersistentRole'
        /\ \A t \in Tabs :
              lastOp'.op = "getViewerRoleFE" /\ lastOp'.tab = t =>
                  ret' = Some(getViewerRoleFE(t)) ]_vars

\* tab A is logged in as management, tab B has just logged in as carer (the
\* persistent role is carer), and tab A still gets management
C22_Witness ==
    /\ lastOp.op = "setViewerRoleFE" /\ lastOp.tab = "B" /\ lastOp.arg = <<"carer">>
    /\ ssMockRole["A"] = Some("management")
    /\ lsActiveRole = Some("carer")
    /\ getViewerRoleFE("A") = "management"

(***************************************************************************)
(* Properties of the frame runs (SpecFrame)                                *)
(***************************************************************************)
\* the (client, category, item, amount) the step reconciles: the arguments of
\* a direct applyTransactionToBudgetFE call, the fields of the transaction an
\* Approved status call found; <<>> when the step reconciles nothing
Reconciles ==
    IF lastOp'.op = "applyTransactionToBudgetFE" THEN lastOp'.arg
    ELSE IF /\ lastOp'.op = "setTransactionStatusFE"
            /\ lastOp'.arg[2] = "Approved"
            /\ FindTx(StoredTx, lastOp'.arg[1]) > 0
         THEN LET tx == StoredTx[FindTx(StoredTx, lastOp'.arg[1])]
              IN  <<tx.clientId, tx.category, tx.item, tx.amount>>
         ELSE <<>>

\* after differs from before at most in the spent of the rows of clientId with
\* this category and item, and in a row added at the end for them
OnlySpentOf(before, after, clientId, category, item) ==
    /\ DOMAIN before \subseteq DOMAIN after
    /\ \A d \in DOMAIN after \ {clientId} : d \in DOMAIN before /\ after[d] = before[d]
    /\ LET old == RowsOf(before, clientId)
           new == RowsOf(after, clientId)
       IN  /\ Len(new) \in {Len(old), Len(old) + 1}
           /\ Len(new) > Len(old) =>
                 /\ new[Len(new)].category = category /\ new[Len(new)].item = item
                 /\ \A k \in 1..Len(old) : new[k] = old[k]
           /\ \A k \in 1..Len(old) :
                 /\ new[k].allocated = old[k].allocated
                 /\ new[k].item = old[k].item /\ new[k].category = old[k].category
                 /\ ~(old[k].category = category /\ old[k].item = item) => new[k] = old[k]

\* C23: a reconciliation (applyTransactionToBudgetFE) changes nothing of the
\* budget but the spent of the row it targets (or adds that row): every
\* allocated value, every other row of the client and every row of the other
\* clients stay; every other operation (addTransactionFE, setAnnualBudgetFE,
\* getBudgetRowsFE, a status change to Pending or Rejected) leaves all budget
\* rows as they were.
C23_OnlyReconciliationChangesSpent ==
    [][ IF Reconciles = <<>>
        THEN BudgetView' = BudgetView
        ELSE OnlySpentOf(BudgetView, BudgetView', Reconciles[1], Reconciles[2],
                         Reconciles[3]) ]_vars

\* the approval of the demo transaction t1 has raised the spent of the dental
\* row; its allocated value and the rows of the other clients are the seed's
C23_Witness ==
    /\ lastOp.op = "setTransactionStatusFE" /\ lastOp.arg = <<TxId(1), "Approved">>
    /\ BudgetView[FULL_DASH_ID][1].spent = Tenths(636) + Tenths(36)
    /\ BudgetView[FULL_DASH_ID][1].allocated = Tenths(600)
    /\ BudgetView[PARTIAL_DASH_ID] = DEFAULT_BUDGET_BY_CLIENT_0[PARTIAL_DASH_ID]

(***************************************************************************)
(* Further properties of the access runs (SpecAccess)                      *)
(***************************************************************************)
\* C24: when AccessMenu.selectOrg(orgId) has completed, each of the three
\* reference clients has a stored override for orgId, also when the tab has
\* seeded another organisation earlier in the session.
C24_SelectOrgSeedsSelectedOrg ==
    lastOp.op = "selectOrg" /\ ret # Thrown =>
        \A c \in ReferenceClients : Override(c, lastOp.arg[1]) # None

\* C25: with the current organisation never changed, in every tab, when
\* seedOrgStatusDefaultsFE has returned (called directly or by a page load),
\* getOrgStatusForClientFE is defined for each of the three reference
\* clients, whatever the other tab has done since this tab set its flag.
C25_SeedDefinesAllThree ==
    /\ lastOp.op \in {"seedOrgStatusDefaultsFE", "loadClients", "loadClientsWithOrgAccess"}
    /\ lsCurrentOrgId = None
    => \A c \in ReferenceClients : getOrgStatusForClientFE(c, getCurrentOrgIdFE) # None

(***************************************************************************)
(* Properties of the race runs (SpecRace)                                  *)
(***************************************************************************)
\* r is one of the records of list
Holds(list, r) == \E i \in 1..Len(list) : list[i] = r

\* the pairs (client, organisation) that have a status in the map m
Pairs(m) == { p \in (DOMAIN m) \X MOCK_ORGS : p[2] \in DOMAIN m[p[1]] }

\* C26: when a writer that has read a collection writes it back, the
\* persisted value is that writer's collection (what it read plus its own
\* change): whatever another tab has written since the read, a record or an
\* override, is no longer there.  Nothing is merged or checked.
C26_LastWriterWins ==
    [][ \A u \in Tabs :
          /\ lastOp'.op = "addTransactionFE" /\ lastOp'.tab = u =>
                /\ lsTransactions' = Some(Append(held[u].all, held[u].rec))
                /\ \A i \in 1..Len(StoredList(lsTransactions)) :
                      LET r == StoredList(lsTransactions)[i]
                      IN  ~Holds(held[u].all, r) /\ r # held[u].rec =>
                              ~Holds(StoredList(lsTransactions'), r)
          /\ lastOp'.op = "setOrgStatusForClientFE" /\ lastOp'.tab = u =>
                /\ Pairs(StoredList(lsOrgStatus'))
                     = Pairs(held[u].m) \cup {<<held[u].arg[1], held[u].arg[2]>>}
                /\ \A p \in Pairs(held[u].m) \ {<<held[u].arg[1], held[u].arg[2]>>} :
                      lsOrgStatus'[1][p[1]][p[2]] = held[u].m[p[1]][p[2]]
                /\ lsOrgStatus'[1][held[u].arg[1]][held[u].arg[2]] = held[u].arg[3] ]_vars

\* both tabs read, tab A wrote its transaction and its override, tab B wrote
\* last: the store holds B's transaction and override and neither of A's
C26_Witness ==
    /\ held = [t \in Tabs |-> Idle]
    /\ Len(DEMO_TRANSACTIONS["A"]) = Len(DEMO_TRANSACTIONS_0) + 1
    /\ Len(StoredList(lsTransactions)) = Len(DEMO_TRANSACTIONS_0) + 1
    /\ StoredList(lsTransactions)[Len(StoredList(lsTransactions))].clientId = PARTIAL_DASH_ID
    /\ DOMAIN lastSet = {<<FULL_DASH_ID, "org1">>, <<PARTIAL_DASH_ID, "org1">>}
    /\ Override(FULL_DASH_ID, "org1") = None
    /\ Override(PARTIAL_DASH_ID, "org1") = Some("approved")

(***************************************************************************)
(* Properties of the approval in steps (SpecCrash)                         *)
(***************************************************************************)
\* what a tab opened now finds in the store
PersistedTx     == IF lsTransactions = None THEN DEMO_TRANSACTIONS_0 ELSE lsTransactions[1]
PersistedBudget == IF lsBudget = None THEN DEFAULT_BUDGET_BY_CLIENT_0 ELSE lsBudget[1]

\* the demo transaction id is persisted as Approved
PersistedApproved(id) ==
    \E i \in 1..Len(PersistedTx) : PersistedTx[i].id = id /\ PersistedTx[i].status = "Approved"

\* the persisted budget row of the demo transaction id includes its amount:
\* the spent of the row is no longer the seed's (there is no row in the seed
\* for t3)
Included(id) ==
    LET tx == DEMO_TRANSACTIONS_0[FindTx(DEMO_TRANSACTIONS_0, id)]
    IN  SpentOfTx(PersistedBudget, tx) # SeedSpent(tx.clientId, tx.category, tx.item)

BetweenWrites(t) ==
    held[t] # Idle /\ held[t].op \in {"applyTransactionToBudgetFE", "writeBudgetMap"}

\* C27: an approval is two store writes, the transactions first and the
\* budget later, and no step makes both.  The first write leaves the
\* transaction Approved and the budget as it was; a rejected first write does
\* not stop the approval; the second write puts the amount into the row
\* whatever the persisted transaction says by then; a tab that crashes
\* between the two leaves the store as it is with nothing left to finish
\* the approval.
C27_ApprovalIsTwoWrites ==
    [][ /\ ~(lsTransactions' # lsTransactions /\ lsBudget' # lsBudget)
        /\ \A t \in Tabs :
              /\ lastOp'.op = "writeTransactions" /\ lastOp'.tab = t =>
                    /\ lsBudget' = lsBudget
                    /\ \A id \in ApprovedIds :
                          lastOp'.arg[1] = id /\ lastOp'.arg[3] => PersistedApproved(id)'
                    /\ ~lastOp'.arg[3] => lsTransactions' = lsTransactions
                    /\ BetweenWrites(t)'
              /\ lastOp'.op = "setTransactionStatusFE" /\ lastOp'.tab = t =>
                    /\ lsTransactions' = lsTransactions
                    /\ \A id \in ApprovedIds :
                          lastOp'.arg[1] = id /\ lastOp'.arg[3] => Included(id)'
                    /\ ~lastOp'.arg[3] => lsBudget' = lsBudget
                    /\ held'[t] = Idle
              /\ lastOp'.op = "crash" /\ lastOp'.tab = t =>
                    /\ lsTransactions' = lsTransactions /\ lsBudget' = lsBudget
                    /\ held'[t] = Idle ]_vars

\* no call is in progress in any tab; t3 is persisted as Approved and there is
\* no Mouthwash row (the tab crashed between the writes), and the Toothbrush
\* Heads row includes the amount of t2 while t2 is persisted as Rejected (the
\* write of the transactions was rejected or overwritten by the other tab)
C27_Witness ==
    /\ held = [t \in Tabs |-> Idle]
    /\ PersistedApproved(TxId(3)) /\ ~Included(TxId(3))
    /\ ~PersistedApproved(TxId(2)) /\ Included(TxId(2))

(***************************************************************************)
(* Properties of the demo seeds (SpecFrame)                                *)
(***************************************************************************)
\* C28: a read that finds the transactions or the budget absent and seeds it
\* writes and returns the original demo defaults, whatever addTransactionFE,
\* setTransactionStatusFE or applyTransactionToBudgetFE calls the tab made
\* before, rejected writes included.
C28_DemoSeedIsFixed ==
    [][/\ (lastOp'.op = "getTransactionsFE" /\ lsTransactions = None) =>
            /\ ret' = Some(OfClient(DEMO_TRANSACTIONS_0, lastOp'.arg[1]))
            /\ lsTransactions' \in {None, Some(DEMO_TRANSACTIONS_0)}
       /\ (lastOp'.op = "getBudgetRowsFE" /\ lsBudget = None) =>
            /\ ret' = Some(RowsOf(DEFAULT_BUDGET_BY_CLIENT_0, lastOp'.arg[1]))
            /\ lsBudget' \in {None, Some(DEFAULT_BUDGET_BY_CLIENT_0)}]_vars


(***************************************************************************)
(* Properties of the hydration runs (SpecHydrate)                          *)
(***************************************************************************)
\* C29: when the stored 'tasks' item decodes to a non-empty list, getTasksFE
\* returns the hydrated form of that list, whether or not the store accepts
\* the write of the hydrated list.
C29_HydratedListReturned ==
    [][(lastOp'.op = "getTasksFE" /\ TasksUsable(lsTasks)) =>
            ret' = Some(hydrated(lsTasks[1]))]_vars


(***************************************************************************)
(* Properties of the request log runs (SpecLog)                            *)
(***************************************************************************)
\* C30: when setRequestStatusFE is rejected after the optimistic change, the
\* rollback of handleStatusChange leaves every row of the page with the status
\* it showed before the change; for a viewer who is not management
\* handleStatusChange changes neither the rows shown nor the stored item.
C30_RollbackRestoresStatus ==
    [][\A t \in Tabs :
          (lastOp'.op = "handleStatusChange" /\ lastOp'.tab = t) =>
             /\ lastOp'.arg[3] => requests'[t] = requests[t]
             /\ getViewerRoleFE(t) # "management" =>
                   requests' = requests /\ lsRequests' = lsRequests]_vars

====
